---------------------------- MODULE Spec2Model ----------------------------
(***************************************************************************)
(* Blossom: the tutoring session engine.                                   *)
(*                                                                         *)
(*  - Spec        the quiz checkpoint machine: the chat page with its      *)
(*                QuizBlock (web client), the quiz-response endpoint and   *)
(*                the quiz stored in the assistant message's metadata.     *)
(*  - SpecGrade   evaluate_response as a function of marker and answer.    *)
(*                                                                         *)
(* Text values that the code inspects character by character (answers,     *)
(* markers, option labels) are sequences of one-character strings.         *)
(***************************************************************************)
EXTENDS Integers, Sequences, FiniteSets, TLC

VARIABLES
    dbMessages,   \* messages table: the conversation's rows in persisted order
    dbClock,      \* number of completing writes the database has committed
    chan,         \* per call slot: the HTTP request or reply in flight
    messages,     \* ChatPage state: messages
    answers,      \* QuizBlock state: answers, per quiz message
    profile,      \* user_profiles: the learner's row
    jobs,         \* Extraction Job per ended conversation
    events,       \* learning_events: background_job_* rows per conversation
    clock,        \* the database's now()
    lastOp,       \* the extraction-side operation that ran last
    fnIn,         \* input of the function under study (function specs)
    fnOut,        \* its result, NoValue before it ran
    conversations,  \* conversations rows, by id
    msgs,           \* messages rows of each conversation, in stored order
    turns,          \* send_message and quiz-response calls being served
    sessionEvents,  \* learning_events: session_* rows per conversation
    snapshots,      \* the transcript each Extraction Job read
    input,          \* ChatPage state: input
    loading,        \* ChatPage state: loading
    pageError,      \* ChatPage state: error
    initializing,   \* ChatPage state: initializing
    sendCall,       \* handleSend's sendMessage requests, from fetch to settle
    dateNow,        \* Date.now() as last read by the page
    event           \* the page handler that ran last

quizVars == <<dbMessages, dbClock, chan, messages, answers>>

extractVars == <<profile, jobs, events, clock, lastOp>>

fnVars == <<fnIn, fnOut>>

turnVars == <<conversations, msgs, turns, sessionEvents, snapshots>>

chatVars == <<input, loading, pageError, initializing, sendCall, dateNow, event>>

vars == <<quizVars, extractVars, fnVars, turnVars, chatVars>>

NoValue == [none |-> TRUE]

-----------------------------------------------------------------------------
(* Bounds *)

\* longest response list a raw API caller posts
MaxResponses == 2

\* completing writes the database clock counts before it saturates
MaxClock == 2

\* longest marker / answer text SpecGrade enumerates
MaxStrLen == 2

\* send_message calls accepted in one run of the session model
MaxTurns == 2

\* close requests, timeouts and redelivered session_ended events per
\* conversation
MaxEndRequests == 2

\* sendMessage requests the chat page starts in one run
MaxSends == 2

-----------------------------------------------------------------------------
(* Text *)

Letters == {"A", "B"}

Chars == {"a", "A", "b", " "}

\* str.upper() on one character
UpperChar(c) ==
    CASE c = "a" -> "A"
      [] c = "b" -> "B"
      [] OTHER -> c

\* str.upper()
Upper(s) == [i \in 1..Len(s) |-> UpperChar(s[i])]

\* String.prototype.charAt(0): the first character, "" for the empty string
CharAt0(s) == IF Len(s) = 0 THEN <<>> ELSE <<s[1]>>

RECURSIVE StripLeft(_)
StripLeft(s) ==
    IF Len(s) > 0 /\ s[1] = " " THEN StripLeft(Tail(s)) ELSE s

RECURSIVE StripRight(_)
StripRight(s) ==
    IF Len(s) > 0 /\ s[Len(s)] = " "
    THEN StripRight(SubSeq(s, 1, Len(s) - 1)) ELSE s

\* str.strip()
strip(s) == StripRight(StripLeft(s))

\* sequences over S of length 0..n
SeqsUpTo(S, n) == UNION {[1..k -> S] : k \in 0..n}

-----------------------------------------------------------------------------
(* The quiz carried by an assistant message (messages.metadata) *)

QuestionIds == {"q1", "q2"}

QuizQuestions ==
    << [id |-> "q1", options |-> << <<"A", ".">>, <<"B", ".">> >>,
        correct_answer |-> <<"B">>, difficulty |-> 1],
       [id |-> "q2", options |-> << <<"A", ".">>, <<"B", ".">> >>,
        correct_answer |-> <<"A">>, difficulty |-> 5] >>

NoMetadata ==
    [type |-> "none", questions |-> <<>>, status |-> "none",
     responses |-> <<>>, completed_at |-> 0]

PendingQuiz ==
    [type |-> "quiz", questions |-> QuizQuestions, status |-> "pending",
     responses |-> <<>>, completed_at |-> 0]

MessageIds == {"m1", "m2"}

\* the conversation as stored when the page opens: a plain assistant
\* message and an assistant message whose reply embedded a quiz
InitialRows ==
    << [id |-> "m2", role |-> "assistant", content |-> "hello",
        metadata |-> NoMetadata],
       [id |-> "m1", role |-> "assistant", content |-> "quick check",
        metadata |-> PendingQuiz] >>

RowIndex(rows, id) == CHOOSE i \in 1..Len(rows) : rows[i].id = id

RowOf(rows, id) == rows[RowIndex(rows, id)]


-----------------------------------------------------------------------------
(* Grading: AIPipeline.evaluate_response *)

Max(a, b) == IF a >= b THEN a ELSE b

\* a bug the grader could have: compares the texts as typed
evaluate_response_exact(question, user_answer) ==
    LET is_correct == user_answer = question.correct_answer
    IN  [is_correct |-> is_correct,
         feedback |-> IF is_correct THEN "Correct!" ELSE "generated",
         signal_strength |->
             IF is_correct THEN 80 + question.difficulty * 4
             ELSE Max(0, 50 - question.difficulty * 10),
         is_positive |-> is_correct]

evaluate_response(question, user_answer) ==
    LET is_correct == Upper(user_answer) = Upper(question.correct_answer)
    IN  [is_correct |-> is_correct,
         feedback |-> IF is_correct THEN "Correct!" ELSE "generated",
         signal_strength |->
             IF is_correct THEN 80 + question.difficulty * 4
             ELSE Max(0, 50 - question.difficulty * 10),
         is_positive |-> is_correct]

-----------------------------------------------------------------------------
(* The quiz-response endpoint, POST /api/messages/:id/quiz-response *)

Ids(questions) == {questions[i].id : i \in 1..Len(questions)}

QuestionById(questions, qid) ==
    questions[CHOOSE i \in 1..Len(questions) : questions[i].id = qid]

\* a bug: only the number of entries is compared with the number of questions
ExactlyOnePerQuestion_countOnly(questions, responses) ==
    Len(responses) = Len(questions)

\* the submission holds exactly one answer for every question of the quiz
ExactlyOnePerQuestion(questions, responses) ==
    /\ Len(responses) = Len(questions)
    /\ \A qid \in Ids(questions) :
          Cardinality({i \in 1..Len(responses) :
                          responses[i].question_id = qid}) = 1

\* a bug: any submission is taken as complete
SubmissionAccepted_any(questions, responses) == TRUE

SubmissionAccepted(questions, responses) ==
    ExactlyOnePerQuestion(questions, responses)

\* a bug: a quiz is open to submissions whatever its status
QuizIsPending_anyQuiz(metadata) == metadata.type = "quiz"

QuizIsPending(metadata) ==
    metadata.type = "quiz" /\ metadata.status = "pending"

GradeResponses(questions, responses) ==
    [i \in 1..Len(responses) |->
        LET r == responses[i]
            e == evaluate_response(QuestionById(questions, r.question_id),
                                   r.user_answer)
        IN  [question_id |-> r.question_id, user_answer |-> r.user_answer,
             is_correct |-> e.is_correct, feedback |-> e.feedback]]

CompletedQuiz(metadata, responses, now) ==
    [metadata EXCEPT !.status = "completed",
                     !.responses = GradeResponses(metadata.questions, responses),
                     !.completed_at = now]

Free == [st |-> "free", messageId |-> "", responses |-> <<>>,
         error |-> "", message |-> NoValue]

Request(messageId, responses) ==
    [st |-> "sent", messageId |-> messageId, responses |-> responses,
     error |-> "", message |-> NoValue]

Reply(req, error, message) ==
    [st |-> "reply", messageId |-> req.messageId, responses |-> <<>>,
     error |-> error, message |-> message]

\* one request handled as one transaction on the message row
QuizResponseEndpoint(k) ==
    /\ chan[k].st = "sent"
    /\ LET req == chan[k]
           i   == RowIndex(dbMessages, req.messageId)
           row == dbMessages[i]
       IN  IF ~QuizIsPending(row.metadata)
           THEN /\ chan' = [chan EXCEPT ![k] = Reply(req, "Conflict", NoValue)]
                /\ UNCHANGED <<dbMessages, dbClock>>
           ELSE IF ~SubmissionAccepted(row.metadata.questions, req.responses)
           THEN /\ chan' = [chan EXCEPT ![k] =
                               Reply(req, "ValidationError", NoValue)]
                /\ UNCHANGED <<dbMessages, dbClock>>
           ELSE /\ dbClock < MaxClock
                /\ dbClock' = dbClock + 1
                /\ dbMessages' = [dbMessages EXCEPT ![i].metadata =
                       CompletedQuiz(row.metadata, req.responses, dbClock + 1)]
                /\ chan' = [chan EXCEPT ![k] =
                               Reply(req, "", dbMessages'[i])]
    /\ UNCHANGED <<messages, answers, fnVars, extractVars, turnVars, chatVars>>

-----------------------------------------------------------------------------
(* The web client: ChatPage and QuizBlock *)

PageCalls == {"k1", "k2"}

Calls == PageCalls \cup {"api"}

apiMessageToMessage(msg) ==
    [id |-> msg.id, role |-> msg.role, content |-> msg.content,
     metadata |-> msg.metadata]

\* ChatPage renders a QuizBlock under the message
QuizBlockRendered(message) ==
    message.metadata.type = "quiz" /\ Len(message.metadata.questions) > 0

\* status={message.metadata.status || "pending"}
StatusProp(message) ==
    IF message.metadata.status \in {"", "none"} THEN "pending"
    ELSE message.metadata.status

isCompleted(message) == StatusProp(message) = "completed"

\* a bug: questions.some in place of questions.every
allAnswered_some(message) ==
    \E i \in 1..Len(message.metadata.questions) :
        answers[message.id][message.metadata.questions[i].id] # <<>>

allAnswered(message) ==
    \A i \in 1..Len(message.metadata.questions) :
        answers[message.id][message.metadata.questions[i].id] # <<>>

\* an option button of an open quiz is clicked
handleSelect(m, qi, oi) ==
    /\ m \in 1..Len(messages)
    /\ QuizBlockRendered(messages[m])
    /\ LET message  == messages[m]
           question == message.metadata.questions[qi]
           letter   == CharAt0(question.options[oi])
       IN  /\ ~isCompleted(message)
           /\ answers' = [answers EXCEPT ![message.id][question.id] = letter]
    /\ UNCHANGED <<dbMessages, dbClock, chan, messages, fnVars, extractVars, turnVars, chatVars>>

submissionResponses(message) ==
    [i \in 1..Len(message.metadata.questions) |->
        [question_id |-> message.metadata.questions[i].id,
         user_answer |-> answers[message.id][message.metadata.questions[i].id]]]

\* api.messages.submitQuizResponse: the POST leaves on a free call slot
submitQuizResponse(k, messageId, responses) ==
    /\ chan[k] = Free
    /\ chan' = [chan EXCEPT ![k] = Request(messageId, responses)]

FirstFree == CHOOSE k \in PageCalls :
                 /\ chan[k] = Free
                 /\ (k = "k2" => chan["k1"] # Free)

\* "Check Answers" is clicked: handleSubmit, then handleQuizSubmit up to its await
handleSubmit(m) ==
    /\ m \in 1..Len(messages)
    /\ QuizBlockRendered(messages[m])
    /\ ~isCompleted(messages[m])
    /\ allAnswered(messages[m])
    /\ \E k \in PageCalls : chan[k] = Free
    /\ submitQuizResponse(FirstFree, messages[m].id,
                          submissionResponses(messages[m]))
    /\ UNCHANGED <<dbMessages, dbClock, messages, answers, fnVars, extractVars, turnVars, chatVars>>

\* a bug: the catch branch takes the quiz message off the list
handleQuizSubmit_dropsOnError(k) ==
    /\ k \in PageCalls
    /\ chan[k].st = "reply"
    /\ messages' =
          IF chan[k].error = ""
          THEN [i \in 1..Len(messages) |->
                   IF messages[i].id = chan[k].messageId
                   THEN apiMessageToMessage(chan[k].message)
                   ELSE messages[i]]
          ELSE SelectSeq(messages, LAMBDA m : m.id # chan[k].messageId)
    /\ chan' = [chan EXCEPT ![k] = Free]
    /\ UNCHANGED <<dbMessages, dbClock, answers, fnVars, extractVars, turnVars, chatVars>>

\* handleQuizSubmit after its await: the reply updates the one message, or
\* the rejection is logged
handleQuizSubmit(k) ==
    /\ k \in PageCalls
    /\ chan[k].st = "reply"
    /\ messages' =
          IF chan[k].error = ""
          THEN [i \in 1..Len(messages) |->
                   IF messages[i].id = chan[k].messageId
                   THEN apiMessageToMessage(chan[k].message)
                   ELSE messages[i]]
          ELSE messages
    /\ chan' = [chan EXCEPT ![k] = Free]
    /\ UNCHANGED <<dbMessages, dbClock, answers, fnVars, extractVars, turnVars, chatVars>>

\* any other caller of the endpoint, with a response list of its own making
RawResponses ==
    SeqsUpTo([question_id : QuestionIds, user_answer : {<<"A">>, <<"b">>}],
             MaxResponses)

ApiPost(messageId, responses) ==
    /\ submitQuizResponse("api", messageId, responses)
    /\ UNCHANGED <<dbMessages, dbClock, messages, answers, fnVars, extractVars, turnVars, chatVars>>

ApiSettled ==
    /\ chan["api"].st = "reply"
    /\ chan' = [chan EXCEPT !["api"] = Free]
    /\ UNCHANGED <<dbMessages, dbClock, messages, answers, fnVars, extractVars, turnVars, chatVars>>

-----------------------------------------------------------------------------
(* Variables a specification does not use stay at these values *)

ParkedQuiz ==
    /\ dbMessages = <<>>
    /\ dbClock = 0
    /\ chan = [k \in Calls |-> Free]
    /\ messages = <<>>
    /\ answers = [id \in MessageIds |-> [q \in QuestionIds |-> <<>>]]

ParkedExtract ==
    /\ profile = NoValue
    /\ jobs = NoValue
    /\ events = NoValue
    /\ clock = 0
    /\ lastOp = NoValue

ParkedFn ==
    /\ fnIn = NoValue
    /\ fnOut = NoValue

\* a sendMessage request the page has not started yet
NoSend == [st |-> "unused"]

ParkedChat ==
    /\ input = <<>>
    /\ loading = FALSE
    /\ pageError = ""
    /\ initializing = FALSE
    /\ sendCall = [n \in 1..MaxSends |-> NoSend]
    /\ dateNow = 0
    /\ event = "none"

ParkedTurn ==
    /\ conversations = NoValue
    /\ msgs = NoValue
    /\ turns = NoValue
    /\ sessionEvents = NoValue
    /\ snapshots = NoValue

-----------------------------------------------------------------------------
(* The quiz checkpoint machine *)

Init ==
    /\ dbMessages = InitialRows
    /\ dbClock = 0
    /\ chan = [k \in Calls |-> Free]
    /\ messages = [i \in 1..Len(InitialRows) |->
                      apiMessageToMessage(InitialRows[i])]
    /\ answers = [id \in MessageIds |-> [q \in QuestionIds |-> <<>>]]
    /\ ParkedFn
    /\ ParkedExtract
    /\ ParkedTurn
    /\ ParkedChat

Next ==
    \/ \E m \in 1..Len(InitialRows), qi \in 1..Len(QuizQuestions), oi \in 1..2 :
          handleSelect(m, qi, oi)
    \/ \E m \in 1..Len(InitialRows) : handleSubmit(m)
    \/ \E k \in PageCalls : handleQuizSubmit(k)
    \/ \E id \in MessageIds, rs \in RawResponses : ApiPost(id, rs)
    \/ ApiSettled
    \/ \E k \in Calls : QuizResponseEndpoint(k)

Spec == Init /\ [][Next]_vars

-----------------------------------------------------------------------------
(* Quiz checkpoint properties *)

PendingAt(rows, id) ==
    LET md == RowOf(rows, id).metadata
    IN  md.type = "quiz" /\ md.status = "pending"

\* the question ids a response list answers, and whether it answers each
\* question of the quiz once and nothing else
AnsweredIds(responses) ==
    {responses[i].question_id : i \in 1..Len(responses)}

OneAnswerEach(questions, responses) ==
    /\ AnsweredIds(responses) = Ids(questions)
    /\ Len(responses) = Cardinality(Ids(questions))

Handled(k) == chan[k].st = "sent" /\ chan'[k].st = "reply"

\* C1: a stored quiz goes pending -> completed at most once, only in a
\* step that records a response for every question, and a completed quiz
\* stays completed (its row is never rewritten); a message without a quiz
\* never acquires a status.
C1_QuizCompletesOnce ==
    [][\A i \in 1..Len(dbMessages) :
          LET old == dbMessages[i].metadata
              new == dbMessages'[i].metadata
          IN  /\ old.status = "completed" => new.status = "completed"
              /\ old.status = "none" => new.status = "none"
              /\ new.status \in {"none", "pending", "completed"}
              /\ (old.status = "pending" /\ new.status = "completed") =>
                    /\ AnsweredIds(new.responses) = Ids(new.questions)
                    /\ Len(new.responses) = Len(new.questions)]_vars

\* two submissions raced on the pending quiz: one has completed it and its
\* reply is on the way back while the other is still waiting to be handled
C1_Witness ==
    /\ RowOf(dbMessages, "m1").metadata.status = "completed"
    /\ \E k1, k2 \in Calls :
          /\ k1 # k2
          /\ chan[k1].st = "reply" /\ chan[k1].error = ""
          /\ chan[k2].st = "sent" /\ chan[k2].messageId = "m1"
          /\ OneAnswerEach(QuizQuestions, chan[k2].responses)

\* C2: a submission handled while the message's quiz is not pending (it
\* is completed, or the message has no quiz) is answered Conflict and
\* the stored rows (responses, status, completion time) stay as they were.
C2_NotPendingIsConflict ==
    [][\A k \in Calls :
          (Handled(k) /\ ~PendingAt(dbMessages, chan[k].messageId)) =>
              /\ chan'[k].error = "Conflict"
              /\ dbMessages' = dbMessages]_vars

\* the page's own submission came back Conflict: another caller had
\* completed the quiz, whose stored result is still in place
C2_Witness ==
    /\ RowOf(dbMessages, "m1").metadata.status = "completed"
    /\ Len(RowOf(dbMessages, "m1").metadata.responses) = Len(QuizQuestions)
    /\ \E k \in PageCalls :
          /\ chan[k].st = "reply"
          /\ chan[k].messageId = "m1"
          /\ chan[k].error = "Conflict"

\* C3: a submission to a pending quiz that does not hold exactly one
\* answer per question is answered with an error and changes no row: the
\* quiz stays pending with no response recorded.
C3_PartialIsRejected ==
    [][\A k \in Calls :
          (/\ Handled(k)
           /\ PendingAt(dbMessages, chan[k].messageId)
           /\ ~OneAnswerEach(RowOf(dbMessages, chan[k].messageId).metadata.questions,
                             chan[k].responses)) =>
              /\ chan'[k].error = "ValidationError"
              /\ dbMessages' = dbMessages
              /\ PendingAt(dbMessages', chan[k].messageId)
              /\ RowOf(dbMessages', chan[k].messageId).metadata.responses = <<>>]_vars

\* a submission without exactly one answer per question was rejected and
\* the quiz is still pending
C3_Witness ==
    /\ PendingAt(dbMessages, "m1")
    /\ chan["api"].st = "reply"
    /\ chan["api"].messageId = "m1"
    /\ chan["api"].error = "ValidationError"

-----------------------------------------------------------------------------
(* evaluate_response over all markers and answers *)

Strs == SeqsUpTo(Chars, MaxStrLen)

InitGrade ==
    /\ ParkedQuiz
    /\ ParkedExtract
    /\ ParkedTurn
    /\ ParkedChat
    /\ fnIn \in [question : [correct_answer : Strs, difficulty : {1, 5}],
                 user_answer : Strs]
    /\ fnOut = NoValue

Evaluate ==
    /\ fnOut = NoValue
    /\ fnOut' = evaluate_response(fnIn.question, fnIn.user_answer)
    /\ UNCHANGED <<fnIn, quizVars, extractVars, turnVars, chatVars>>

NextGrade == Evaluate

SpecGrade == InitGrade /\ [][NextGrade]_vars

\* two characters that are the same letter in either case
SameLetter(c, d) == c = d \/ {c, d} \in {{"a", "A"}, {"b", "B"}}

SameIgnoringCase(s, t) ==
    Len(s) = Len(t) /\ \A i \in 1..Len(s) : SameLetter(s[i], t[i])

Trimmed(s) == StripRight(StripLeft(s))

\* C4 as stated: correct exactly when answer and marker are equal after
\* trimming surrounding whitespace and ignoring letter case.
C4_TrimmedIgnoringCase ==
    fnOut # NoValue =>
        (fnOut.is_correct <=>
            SameIgnoringCase(Trimmed(fnIn.user_answer),
                             Trimmed(fnIn.question.correct_answer)))

\* C4 amended: correct exactly when answer and marker are equal ignoring
\* letter case, character for character; whitespace is not trimmed.
C4_IgnoringCaseOnly ==
    fnOut # NoValue =>
        (fnOut.is_correct <=>
            SameIgnoringCase(fnIn.user_answer, fnIn.question.correct_answer))

\* an answer typed in the other case than the marker was graded correct
C4_Witness ==
    /\ fnOut # NoValue
    /\ fnOut.is_correct
    /\ fnIn.user_answer # fnIn.question.correct_answer
    /\ Len(fnIn.user_answer) > 0

-----------------------------------------------------------------------------
(* The learner profile and update_profile_from_extraction *)

Topics == {"t1", "t2"}

\* recent session summaries kept in the profile
MaxRecent == 3

Min(a, b) == IF a <= b THEN a ELSE b

NoTopics == [t \in {} |-> NoValue]

\* the row create_user_profile inserts: every column at its default
EmptyProfile ==
    [display_name |-> "", learning_goals |-> "",
     self_assessed_background |-> "", preferences |-> "{}",
     topics |-> NoTopics, learning_style_observations |-> <<>>,
     current_topic |-> "", recent_sessions |-> <<>>,
     open_questions |-> <<>>, last_session_at |-> 0]

\* a bug: the new summary is added without cutting the list
RecentSessions_uncut(session_summary, recent_sessions) ==
    <<session_summary>> \o recent_sessions

\* ([extraction.session_summary] + profile.recent_sessions)[:3]
RecentSessions(session_summary, recent_sessions) ==
    SubSeq(<<session_summary>> \o recent_sessions, 1,
           Min(MaxRecent, Len(recent_sessions) + 1))

NewTopic(topic, now) ==
    [first_seen |-> now, last_seen |-> now, sessions_count |-> 1,
     comprehension |-> topic.comprehension, quiz_scores |-> <<>>,
     last_quizzed |-> 0]

SeenAgain(state, topic, now) ==
    [state EXCEPT !.last_seen = now,
                  !.sessions_count = @ + 1,
                  !.comprehension = IF topic.comprehension # 0
                                    THEN topic.comprehension ELSE @]

WithTopic(topics, name, state) ==
    [t \in DOMAIN topics \cup {name} |-> IF t = name THEN state ELSE topics[t]]

\* a bug: the extraction's is_new flag, decided against the profile as the
\* job read it, is trusted over the profile as it is now
UpdateTopic_trustIsNew(topics, topic, now) ==
    IF topic.is_new
    THEN WithTopic(topics, topic.name, NewTopic(topic, now))
    ELSE IF topic.name \in DOMAIN topics
    THEN WithTopic(topics, topic.name, SeenAgain(topics[topic.name], topic, now))
    ELSE WithTopic(topics, topic.name, NewTopic(topic, now))

\* a bug: the loop bumps every topic of the profile, not the one discussed
UpdateTopic_bumpAll(topics, topic, now) ==
    IF topic.name \in DOMAIN topics
    THEN [t \in DOMAIN topics |-> SeenAgain(topics[t], topic, now)]
    ELSE WithTopic([t \in DOMAIN topics |-> SeenAgain(topics[t], topic, now)],
                   topic.name, NewTopic(topic, now))

\* one pass of "for topic in extraction.topics_discussed"
UpdateTopic(topics, topic, now) ==
    IF topic.name \in DOMAIN topics
    THEN WithTopic(topics, topic.name, SeenAgain(topics[topic.name], topic, now))
    ELSE WithTopic(topics, topic.name, NewTopic(topic, now))

RECURSIVE UpdateTopics(_, _, _)
UpdateTopics(topics, topics_discussed, now) ==
    IF topics_discussed = <<>> THEN topics
    ELSE UpdateTopics(UpdateTopic(topics, Head(topics_discussed), now),
                      Tail(topics_discussed), now)

\* one pass of "for quiz in extraction.quiz_results"
AppendQuizScore(topics, quiz, now) ==
    IF quiz.topic \in DOMAIN topics
    THEN [topics EXCEPT ![quiz.topic] =
             [@ EXCEPT !.quiz_scores = Append(@, quiz.correct),
                       !.last_quizzed = now]]
    ELSE topics

RECURSIVE AppendQuizScores(_, _, _)
AppendQuizScores(topics, quiz_results, now) ==
    IF quiz_results = <<>> THEN topics
    ELSE AppendQuizScores(AppendQuizScore(topics, Head(quiz_results), now),
                          Tail(quiz_results), now)

\* a bug: the function returns a fresh row that carries the learning state
\* alone, dropping what the learner entered
update_profile_from_extraction_freshRow(p, extraction, now) ==
    [EmptyProfile EXCEPT
        !.recent_sessions =
            RecentSessions(extraction.session_summary, p.recent_sessions),
        !.topics =
            AppendQuizScores(
                UpdateTopics(p.topics, extraction.topics_discussed, now),
                extraction.quiz_results, now),
        !.learning_style_observations =
            p.learning_style_observations
               \o extraction.learning_style_observations,
        !.open_questions = extraction.open_questions,
        !.current_topic = extraction.suggested_next_topic,
        !.last_session_at = now]

update_profile_from_extraction(p, extraction, now) ==
    [p EXCEPT
        !.recent_sessions =
            RecentSessions(extraction.session_summary, p.recent_sessions),
        !.topics =
            AppendQuizScores(
                UpdateTopics(p.topics, extraction.topics_discussed, now),
                extraction.quiz_results, now),
        !.learning_style_observations =
            @ \o extraction.learning_style_observations,
        !.open_questions = extraction.open_questions,
        !.current_topic = extraction.suggested_next_topic,
        !.last_session_at = now]

-----------------------------------------------------------------------------
(* extract_session_insights: the completion's text, cleaned and parsed.    *)
(* The text is a sequence of pieces: a code fence, white space, prose, or  *)
(* one well-formed JSON object.  "fence" is three backquotes, "fence-json" *)
(* is three backquotes followed by the word json.                          *)

ResponseShapes ==
    { <<"JSON">>,
      <<"fence-json", " ", "JSON", " ", "fence">>,
      <<"fence", "JSON", "fence", " ">>,
      <<"prose", "JSON">>,
      <<"prose">>,
      <<>> }

DropFirstIf(s, piece) ==
    IF Len(s) > 0 /\ s[1] = piece THEN Tail(s) ELSE s

DropLastIf(s, piece) ==
    IF Len(s) > 0 /\ s[Len(s)] = piece THEN SubSeq(s, 1, Len(s) - 1) ELSE s

\* the text handed to json.loads
Cleaned(response) ==
    strip(DropLastIf(DropFirstIf(DropFirstIf(strip(response), "fence-json"),
                                 "fence"),
                     "fence"))

\* a bug: whatever comes back is taken for a parsed result
JsonLoads_anything(text) == TRUE

\* json.loads returns (TRUE) or raises (FALSE)
JsonLoads(text) == text = <<"JSON">>

-----------------------------------------------------------------------------
(* The Extraction Job: one task per ended conversation *)

Convs == {"c1", "c2"}

\* attempts against the completion service before the job gives up
MaxAttempts == 3

\* the call came back with no text: it failed or was cancelled
NoResponse == <<"no response">>

NoJob == [st |-> "none", attempts |-> 0, seen |-> {}, result |-> NoValue]

NoEvents == [started |-> 0, completed |-> 0, failed |-> 0]

\* topic lists without repetition, at most two topics long
TopicLists ==
    {<<>>} \cup {<<t>> : t \in Topics}
           \cup {pair \in {<<t, u>> : t \in Topics, u \in Topics} :
                     pair[1] # pair[2]}

\* what the completion may extract from conversation c, the profile's topics
\* being seen when the job read it
Extractions(c, seen) ==
    { [session_summary |-> c,
       topics_discussed |->
           [i \in 1..Len(names) |->
               [name |-> names[i], is_new |-> names[i] \notin seen,
                comprehension |-> IF c = "c1" THEN 4 ELSE 0]],
       quiz_results |-> quizzes,
       learning_style_observations |-> <<c>>,
       open_questions |-> <<c>>,
       suggested_next_topic |-> IF names = <<>> THEN "" ELSE names[1]] :
         names \in TopicLists,
         quizzes \in {<<>>, << [topic |-> "t1", correct |-> TRUE] >>} }

Emit(c, kind) ==
    [events EXCEPT ![c] =
        IF kind = "started" THEN [@ EXCEPT !.started = @ + 1]
        ELSE IF kind = "completed" THEN [@ EXCEPT !.completed = @ + 1]
        ELSE [@ EXCEPT !.failed = @ + 1]]

\* a bug: the conversation id is not used as an idempotency key
AlreadyTriggered_never(c) == FALSE

\* idempotency key = conversation id
AlreadyTriggered(c) == jobs[c].st # "none"

\* session_ended for conversation c reaches the job queue
TriggerExtraction(c) ==
    /\ lastOp' = [op |-> "trigger", conv |-> c, response |-> NoResponse]
    /\ IF AlreadyTriggered(c)
       THEN UNCHANGED <<profile, jobs, events, clock>>
       ELSE /\ jobs' = [jobs EXCEPT ![c] =
                           [st |-> "calling", attempts |-> 1,
                            seen |-> DOMAIN profile.topics,
                            result |-> NoValue]]
            /\ events' = Emit(c, "started")
            /\ UNCHANGED <<profile, clock>>
    /\ UNCHANGED <<quizVars, fnVars, turnVars, chatVars>>

\* a bug: off by one, a fourth attempt is made
RetriesExhausted_late(attempts) == attempts > MaxAttempts

RetriesExhausted(attempts) == attempts >= MaxAttempts

\* a failed attempt writes nothing to the profile
AttemptFailed(c, response) ==
    /\ profile' = profile
    /\ clock' = clock
    /\ IF RetriesExhausted(jobs[c].attempts)
       THEN /\ jobs' = [jobs EXCEPT ![c].st = "failed"]
            /\ events' = Emit(c, "failed")
            /\ lastOp' = [op |-> "failed", conv |-> c, response |-> response]
       ELSE /\ jobs' = [jobs EXCEPT ![c].attempts = @ + 1]
            /\ events' = events
            /\ lastOp' = [op |-> "retry", conv |-> c, response |-> response]

\* the completion service is unavailable, or the call is cancelled on timeout
CompletionFails(c) ==
    /\ jobs[c].st = "calling"
    /\ AttemptFailed(c, NoResponse)
    /\ UNCHANGED <<quizVars, fnVars, turnVars, chatVars>>

\* the completion returns text that json.loads rejects
CompletionUnparsable(c, response) ==
    /\ jobs[c].st = "calling"
    /\ ~JsonLoads(Cleaned(response))
    /\ AttemptFailed(c, response)
    /\ UNCHANGED <<quizVars, fnVars, turnVars, chatVars>>

\* the completion returns text that parses; the delta is applied to the
\* profile row as it is now, in one transaction
CompletionParsed(c, response, extraction) ==
    /\ jobs[c].st = "calling"
    /\ JsonLoads(Cleaned(response))
    /\ clock' = clock + 1
    /\ profile' = update_profile_from_extraction(profile, extraction,
                                                 clock + 1)
    /\ jobs' = [jobs EXCEPT ![c].st = "completed", ![c].result = extraction]
    /\ events' = Emit(c, "completed")
    /\ lastOp' = [op |-> "completed", conv |-> c, response |-> response]
    /\ UNCHANGED <<quizVars, fnVars, turnVars, chatVars>>

PriorSummaries == {<<>>, <<"p2", "p1">>, <<"p3", "p2", "p1">>}

InitExtract ==
    /\ ParkedQuiz
    /\ ParkedFn
    /\ ParkedTurn
    /\ ParkedChat
    /\ profile \in {[EmptyProfile EXCEPT !.recent_sessions = r] :
                       r \in PriorSummaries}
    /\ jobs = [c \in Convs |-> NoJob]
    /\ events = [c \in Convs |-> NoEvents]
    /\ clock = 0
    /\ lastOp = [op |-> "none", conv |-> "", response |-> NoResponse]

JobStep(c) ==
    \/ CompletionFails(c)
    \/ \E response \in ResponseShapes : CompletionUnparsable(c, response)
    \/ \E response \in ResponseShapes, x \in Extractions(c, jobs[c].seen) :
          CompletionParsed(c, response, x)

NextExtract ==
    \/ \E c \in Convs : TriggerExtraction(c)
    \/ \E c \in Convs : JobStep(c)

SpecExtract == InitExtract /\ [][NextExtract]_vars

\* the completion call always returns, fails or times out
FairSpecExtract == SpecExtract /\ \A c \in Convs : WF_vars(JobStep(c))

-----------------------------------------------------------------------------
(* Properties of the Extraction Job *)

Terminal == {"completed", "failed"}

Names(topics_discussed) ==
    {topics_discussed[i].name : i \in 1..Len(topics_discussed)}

\* the conversations whose extraction was applied and touched topic t
SessionsTouching(t) ==
    {c \in Convs : /\ jobs[c].st = "completed"
                   /\ t \in Names(jobs[c].result.topics_discussed)}

\* the pieces of a response that are neither white space nor a fence
Content(response) ==
    SelectSeq(response, LAMBDA piece : piece \notin {" ", "fence", "fence-json"})

\* C5: a second trigger for a conversation whose extraction already
\* succeeded is a no-op: no job is started, nothing is emitted, and the
\* profile (topic map, recent sessions, observations, open questions) is
\* what the first successful run left.
C5_SecondRunIsNoOp ==
    [][ (lastOp'.op = "trigger" /\ jobs[lastOp'.conv].st = "completed")
           => /\ profile' = profile
              /\ jobs' = jobs
              /\ events' = events ]_vars

C5_Witness ==
    \E c \in Convs :
        /\ lastOp.op = "trigger" /\ lastOp.conv = c
        /\ jobs[c].st = "completed"
        /\ events[c].completed = 1
        /\ profile.recent_sessions[1] = c
        /\ DOMAIN profile.topics # {}

C8_RecentSessionsBounded ==
    /\ [](Len(profile.recent_sessions) <= 3)
    /\ [][ lastOp'.op = "completed" /\ jobs[lastOp'.conv].st = "calling"
             => LET old == profile.recent_sessions
                    new == profile'.recent_sessions
                IN  /\ Len(new) = IF Len(old) < 3 THEN Len(old) + 1 ELSE 3
                    /\ new[1] = jobs'[lastOp'.conv].result.session_summary
                    /\ \A i \in 2..Len(new) : new[i] = old[i - 1] ]_vars

\* the fourth summary pushed "p1", the oldest, out
C8_Witness ==
    /\ lastOp.op = "completed"
    /\ profile.recent_sessions = <<lastOp.conv, "p3", "p2">>

\* C9: the profile changes only in the one step in which a job that was
\* calling completes on a response whose content is one JSON object, and
\* that step applies the whole delta; a failed attempt, the attempt that
\* exhausts the retries and a trigger leave every profile field as it was.
C9_NoPartialApply ==
    [][ /\ profile' # profile
           => \E c \in Convs :
                 /\ jobs[c].st = "calling" /\ jobs'[c].st = "completed"
                 /\ lastOp'.op = "completed" /\ lastOp'.conv = c
                 /\ Content(lastOp'.response) = <<"JSON">>
                 /\ profile' = update_profile_from_extraction(
                                   profile, jobs'[c].result, clock')
        /\ lastOp'.op \in {"trigger", "retry", "failed"}
           => profile' = profile ]_vars

\* a job gave up on malformed output and the profile is as it started
C9_Witness ==
    \E c \in Convs :
        /\ jobs[c].st = "failed"
        /\ lastOp.op = "failed" /\ lastOp.conv = c
        /\ lastOp.response = <<"prose", "JSON">>
        /\ profile.last_session_at = 0
        /\ profile.recent_sessions = <<"p2", "p1">>

EventsOf(c) == events[c].completed + events[c].failed

\* C10: a started job makes at most 3 attempts and ends; it has emitted
\* background_job_completed or background_job_failed, one of them and once,
\* exactly when it has ended.
C10_JobTerminates ==
    /\ [](\A c \in Convs :
            /\ jobs[c].attempts <= 3
            /\ EventsOf(c) <= 1
            /\ (jobs[c].st = "completed") <=> (events[c].completed = 1)
            /\ (jobs[c].st = "failed") <=> (events[c].failed = 1)
            /\ (jobs[c].st = "calling") => (EventsOf(c) = 0))
    /\ \A c \in Convs :
          (jobs[c].st = "calling") ~> (jobs[c].st \in Terminal)

\* every attempt failed
C10_Witness ==
    \E c \in Convs :
        /\ jobs[c].st = "failed"
        /\ jobs[c].attempts = 3
        /\ events[c] = [started |-> 1, completed |-> 0, failed |-> 1]
        /\ lastOp.response = NoResponse

-----------------------------------------------------------------------------
(* Two session deltas applied to one profile, in either order *)

\* a topic the profile already holds
KnownTopic ==
    [first_seen |-> 0, last_seen |-> 0, sessions_count |-> 1,
     comprehension |-> 2, quiz_scores |-> <<FALSE>>, last_quizzed |-> 0]

StartingTopicMaps ==
    {[t \in S |-> KnownTopic] : S \in SUBSET Topics}

\* the deltas that touch no topic outside S
DeltasOver(c, S) ==
    { [session_summary |-> c,
       topics_discussed |->
           [i \in 1..Len(names) |->
               [name |-> names[i], is_new |-> FALSE,
                comprehension |-> level]],
       quiz_results |-> quizzes,
       learning_style_observations |-> <<c>>,
       open_questions |-> <<c>>,
       suggested_next_topic |-> ""] :
         names \in {l \in TopicLists : \A i \in 1..Len(l) : l[i] \in S},
         level \in {0, 4},
         quizzes \in {<<>>} \cup {<< [topic |-> t, correct |-> TRUE] >> :
                                     t \in S} }

Touched(delta) ==
    {delta.topics_discussed[i].name : i \in 1..Len(delta.topics_discussed)}
       \cup {delta.quiz_results[i].topic : i \in 1..Len(delta.quiz_results)}

\* the clock readings of the first and of the second application
ClockReadings == {<<1, 1>>, <<1, 2>>}

InitMerge ==
    /\ ParkedQuiz
    /\ ParkedExtract
    /\ ParkedTurn
    /\ ParkedChat
    /\ \E S \in SUBSET Topics :
          fnIn \in [topics : StartingTopicMaps,
                    d1 : DeltasOver("c1", S),
                    d2 : DeltasOver("c2", Topics \ S),
                    now : ClockReadings]
    /\ fnOut = [d1_then_d2 |-> NoValue, d2_then_d1 |-> NoValue]

TopicsAfter(topics, first, second, now) ==
    update_profile_from_extraction(
        update_profile_from_extraction(
            [EmptyProfile EXCEPT !.topics = topics], first, now[1]),
        second, now[2]).topics

ApplyD1ThenD2 ==
    /\ fnOut.d1_then_d2 = NoValue
    /\ fnOut' = [fnOut EXCEPT !.d1_then_d2 =
                    TopicsAfter(fnIn.topics, fnIn.d1, fnIn.d2, fnIn.now)]
    /\ UNCHANGED <<fnIn, quizVars, extractVars, turnVars, chatVars>>

ApplyD2ThenD1 ==
    /\ fnOut.d2_then_d1 = NoValue
    /\ fnOut' = [fnOut EXCEPT !.d2_then_d1 =
                    TopicsAfter(fnIn.topics, fnIn.d2, fnIn.d1, fnIn.now)]
    /\ UNCHANGED <<fnIn, quizVars, extractVars, turnVars, chatVars>>

NextMerge == ApplyD1ThenD2 \/ ApplyD2ThenD1

SpecMerge == InitMerge /\ [][NextMerge]_vars

BothApplied ==
    /\ fnOut.d1_then_d2 # NoValue
    /\ fnOut.d2_then_d1 # NoValue

\* a topic state without its clock readings
Untimed(state) ==
    [sessions_count |-> state.sessions_count,
     comprehension |-> state.comprehension,
     quiz_scores |-> state.quiz_scores]

UntimedMap(topics) == [t \in DOMAIN topics |-> Untimed(topics[t])]

\* C7 as stated: two deltas touching disjoint topics, applied in either
\* order, give the same topic map.
C7_DisjointDeltasCommute ==
    BothApplied /\ Touched(fnIn.d1) \cap Touched(fnIn.d2) = {}
       => fnOut.d1_then_d2 = fnOut.d2_then_d1

\* C7 amended: two deltas touching disjoint topics, applied in either
\* order, give the same topics with the same sessions_count, comprehension
\* and quiz_scores; first_seen, last_seen and last_quizzed are the clock at
\* the application, so the whole maps are equal when both applications read
\* the same clock.
C7_DisjointDeltasCommuteUntimed ==
    BothApplied /\ Touched(fnIn.d1) \cap Touched(fnIn.d2) = {}
       => /\ UntimedMap(fnOut.d1_then_d2) = UntimedMap(fnOut.d2_then_d1)
          /\ fnIn.now[1] = fnIn.now[2]
                => fnOut.d1_then_d2 = fnOut.d2_then_d1

\* both deltas touch a topic, one known and one new, at different times
C7_Witness ==
    /\ BothApplied
    /\ Touched(fnIn.d1) = {"t1"} /\ Touched(fnIn.d2) = {"t2"}
    /\ DOMAIN fnIn.topics = {"t1"}
    /\ fnIn.now = <<1, 2>>
    /\ fnOut.d1_then_d2["t1"].sessions_count = 2
    /\ fnOut.d1_then_d2["t2"].sessions_count = 1

-----------------------------------------------------------------------------
(* The turn loop: send_message, the quiz-response endpoint, and the        *)
(* conversations they act on                                               *)

Users == {"u1", "u2"}

Contents == {"hi"}

TurnCalls == {"s1", "s2"}

Idle == [st |-> "idle"]

NoConversation == [user_id |-> "", status |-> "absent", last_message_at |-> 0,
                   ended_at |-> 0]

\* conversations row defaults: status 'active', timestamps NOW()
NewConversation(user, now) ==
    [user_id |-> user, status |-> "active", last_message_at |-> now,
     ended_at |-> 0]

\* a bug: any signed-in user passes
Owns_anyone(user, c) == conversations[c].status # "absent"

\* get_conversation(conversation_id, user.id) under the row level security
\* policy "Users own their conversations": the row is visible to its owner
Owns(user, c) ==
    /\ conversations[c].status # "absent"
    /\ conversations[c].user_id = user

\* a bug: the new row is put before the stored ones
store_message_first(rows, role, content, metadata, now) ==
    << [role |-> role, content |-> content, created_at |-> now,
        metadata |-> metadata] >> \o rows

\* store_message: INSERT INTO messages, created_at DEFAULT NOW()
store_message(rows, role, content, metadata, now) ==
    Append(rows, [role |-> role, content |-> content, created_at |-> now,
                  metadata |-> metadata])

UserMessages(c) ==
    {i \in 1..Len(msgs[c]) : msgs[c][i].role = "user"}

AcceptedTurns ==
    Cardinality(UserMessages("c1")) + Cardinality(UserMessages("c2"))

\* send_message calls that wait for the completion service, on c
InFlight(c) ==
    {k \in TurnCalls : turns[k].st = "awaiting" /\ turns[k].conv = c}

\* the caller sends again what the last, unanswered user message says
IsRetry(c, content) ==
    /\ InFlight(c) = {}
    /\ Len(msgs[c]) > 0
    /\ msgs[c][Len(msgs[c])].role = "user"
    /\ msgs[c][Len(msgs[c])].content = content

NoSessionEvents == [session_started |-> 0, session_ended |-> 0,
                    message_count |-> 0, end_requests |-> 0]

\* session_started on the first turn of a conversation
EmitSessionStarted(c) ==
    IF msgs[c] = <<>> /\ sessionEvents[c].session_started = 0
    THEN [sessionEvents EXCEPT ![c].session_started = 1]
    ELSE sessionEvents

Answered(k, conv, reply) ==
    [turns EXCEPT ![k] = [st |-> "replied", op |-> turns[k].op,
                          user |-> turns[k].user, conv |-> conv,
                          content |-> turns[k].content,
                          at |-> turns[k].at,
                          retry |-> turns[k].retry, reply |-> reply]]

\* a new call is served in the first free slot
FirstIdle(k) ==
    /\ turns[k] = Idle
    /\ k = "s2" => turns["s1"] # Idle

\* api.conversations.create / POST /api/spaces/:id/conversations
CreateConversation(user, c) ==
    /\ conversations[c].status = "absent"
    /\ conversations' = [conversations EXCEPT ![c] =
                            NewConversation(user, clock)]
    /\ UNCHANGED <<msgs, turns, sessionEvents, snapshots>>
    /\ UNCHANGED <<quizVars, fnVars, extractVars, chatVars>>

\* send_message, steps 1 to 3: verify ownership, store the user message,
\* load the context; the call then waits for the completion service
SendMessageArrives(k, user, c, content) ==
    /\ FirstIdle(k)
    /\ AcceptedTurns < MaxTurns
    /\ IF ~Owns(user, c)
       THEN /\ turns' = [turns EXCEPT ![k] =
                           [st |-> "replied", op |-> "send", user |-> user,
                            conv |-> c, content |-> content, at |-> 0,
                            retry |-> FALSE,
                            reply |-> [error |-> "NotFound"]]]
            /\ UNCHANGED <<msgs, sessionEvents, clock>>
       ELSE /\ clock' = clock + 1
            /\ msgs' = [msgs EXCEPT ![c] =
                           store_message(@, "user", content, NoMetadata,
                                         clock + 1)]
            /\ sessionEvents' = EmitSessionStarted(c)
            /\ turns' = [turns EXCEPT ![k] =
                           [st |-> "awaiting", op |-> "send", user |-> user,
                            conv |-> c, content |-> content,
                            at |-> Len(msgs[c]) + 1,
                            retry |-> IsRetry(c, content),
                            reply |-> NoValue]]
    /\ UNCHANGED <<conversations, snapshots>>
    /\ UNCHANGED <<profile, jobs, events, lastOp>>
    /\ UNCHANGED <<quizVars, fnVars, chatVars>>

\* a bug: the user message is taken back when the tutor call fails
TutorFails_rollback(k) ==
    /\ turns[k].st = "awaiting"
    /\ turns' = Answered(k, turns[k].conv, [error |-> "TutorServiceError"])
    /\ msgs' = [msgs EXCEPT ![turns[k].conv] = SubSeq(@, 1, Len(@) - 1)]
    /\ UNCHANGED <<conversations, sessionEvents, snapshots>>
    /\ UNCHANGED <<quizVars, fnVars, extractVars, chatVars>>

\* send_message, step 4 raises: get_tutor_response fails with
\* TutorServiceError and the handler ends there
TutorFails(k) ==
    /\ turns[k].st = "awaiting"
    /\ turns' = Answered(k, turns[k].conv, [error |-> "TutorServiceError"])
    /\ UNCHANGED <<conversations, msgs, sessionEvents, snapshots>>
    /\ UNCHANGED <<quizVars, fnVars, extractVars, chatVars>>

\* extract_quiz_if_present: the reply embeds a quiz or it does not
ReplyKinds == {"plain", "quiz"}

ReplyMetadata(kind) == IF kind = "quiz" THEN PendingQuiz ELSE NoMetadata

\* a bug: the turn loop and the Extraction Job share a lock
TutorResponds_afterJobs(k, kind) ==
    /\ turns[k].st = "awaiting"
    /\ \A c \in Convs : jobs[c].st \notin {"queued", "calling"}
    /\ clock' = clock + 1
    /\ msgs' = [msgs EXCEPT ![turns[k].conv] =
                   store_message(@, "assistant", "reply",
                                 ReplyMetadata(kind), clock + 1)]
    /\ conversations' = [conversations EXCEPT
                            ![turns[k].conv].last_message_at = clock + 1]
    /\ turns' = Answered(k, turns[k].conv,
                         [error |-> "", has_quiz |-> kind = "quiz",
                          index |-> Len(msgs'[turns[k].conv])])
    /\ UNCHANGED <<sessionEvents, snapshots>>
    /\ UNCHANGED <<profile, jobs, events, lastOp>>
    /\ UNCHANGED <<quizVars, fnVars, chatVars>>

\* send_message, steps 4 to 8: the tutor's reply is stored as the assistant
\* message, the conversation's timestamp is updated, the reply is returned
TutorResponds(k, kind) ==
    /\ turns[k].st = "awaiting"
    /\ clock' = clock + 1
    /\ msgs' = [msgs EXCEPT ![turns[k].conv] =
                   store_message(@, "assistant", "reply",
                                 ReplyMetadata(kind), clock + 1)]
    /\ conversations' = [conversations EXCEPT
                            ![turns[k].conv].last_message_at = clock + 1]
    /\ turns' = Answered(k, turns[k].conv,
                         [error |-> "", has_quiz |-> kind = "quiz",
                          index |-> Len(msgs'[turns[k].conv])])
    /\ UNCHANGED <<sessionEvents, snapshots>>
    /\ UNCHANGED <<profile, jobs, events, lastOp>>
    /\ UNCHANGED <<quizVars, fnVars, chatVars>>

\* the caller has its reply
CallerTakesReply(k) ==
    /\ turns[k].st = "replied"
    /\ turns' = [turns EXCEPT ![k] = Idle]
    /\ UNCHANGED <<conversations, msgs, sessionEvents, snapshots>>
    /\ UNCHANGED <<quizVars, fnVars, extractVars, chatVars>>

\* what a caller may submit for a quiz: an answer to each question, or to
\* the first only
QuizSubmissions ==
    { << [question_id |-> "q1", user_answer |-> <<"b">>],
         [question_id |-> "q2", user_answer |-> <<"b">>] >>,
      << [question_id |-> "q1", user_answer |-> <<"A">>] >> }

QuizMessages(c) ==
    {i \in 1..Len(msgs[c]) : msgs[c][i].metadata.type = "quiz"}

\* POST /api/messages/:id/quiz-response for the i-th message of c; the
\* messages row is visible to the owner of its conversation
QuizResponseArrives(k, user, c, i, responses) ==
    /\ FirstIdle(k)
    /\ i \in QuizMessages(c)
    /\ LET metadata == msgs[c][i].metadata
           error == IF ~Owns(user, c) THEN "NotFound"
                    ELSE IF ~QuizIsPending(metadata) THEN "Conflict"
                    ELSE IF ~SubmissionAccepted(metadata.questions, responses)
                    THEN "ValidationError"
                    ELSE ""
       IN  /\ turns' = [turns EXCEPT ![k] =
                           [st |-> "replied", op |-> "quiz", user |-> user,
                            conv |-> c, content |-> "", at |-> i,
                            retry |-> FALSE,
                            reply |-> [error |-> error]]]
           /\ IF error = ""
              THEN /\ clock' = clock + 1
                   /\ msgs' = [msgs EXCEPT ![c][i].metadata =
                                  CompletedQuiz(metadata, responses,
                                                clock + 1)]
              ELSE UNCHANGED <<msgs, clock>>
    /\ UNCHANGED <<conversations, sessionEvents, snapshots>>
    /\ UNCHANGED <<profile, jobs, events, lastOp>>
    /\ UNCHANGED <<quizVars, fnVars, chatVars>>

-----------------------------------------------------------------------------
(* The session's end and the Extraction Job it enqueues *)

QueuedJob == [st |-> "queued", attempts |-> 0, seen |-> {},
              result |-> NoValue]

\* a bug: every session_ended enqueues a job
Enqueued_always(c) == [jobs EXCEPT ![c] = QueuedJob]

\* enqueue the Extraction Job, keyed by the conversation id
Enqueued(c) ==
    IF AlreadyTriggered(c) THEN jobs ELSE [jobs EXCEPT ![c] = QueuedJob]

EndRequested(c) ==
    [sessionEvents EXCEPT ![c].end_requests = @ + 1]

\* the conversation goes from active to ended: session_ended is emitted
\* with the message count, the Extraction Job is enqueued
SessionEnds(c) ==
    /\ conversations' = [conversations EXCEPT ![c].status = "ended",
                                              ![c].ended_at = clock]
    /\ sessionEvents' = [EndRequested(c) EXCEPT
                            ![c].session_ended = @ + 1,
                            ![c].message_count = Len(msgs[c])]
    /\ jobs' = Enqueued(c)

\* a close request or a timeout for c; nothing happens unless c is active
EndOfSession(c) ==
    /\ conversations[c].status # "absent"
    /\ sessionEvents[c].end_requests < MaxEndRequests
    /\ IF conversations[c].status = "active"
       THEN SessionEnds(c)
       ELSE /\ sessionEvents' = EndRequested(c)
            /\ UNCHANGED <<conversations, jobs>>
    /\ UNCHANGED <<msgs, turns, snapshots>>
    /\ UNCHANGED <<profile, events, clock, lastOp>>
    /\ UNCHANGED <<quizVars, fnVars, chatVars>>

\* the owner closes the session
ExplicitClose(c) == EndOfSession(c)

\* the conversation saw no message for 30 minutes
InactivityTimeout(c) ==
    /\ InFlight(c) = {}
    /\ EndOfSession(c)

\* session_ended for c reaches the job queue once more
SessionEndedRedelivered(c) ==
    /\ conversations[c].status = "ended"
    /\ sessionEvents[c].end_requests < MaxEndRequests
    /\ sessionEvents' = EndRequested(c)
    /\ jobs' = Enqueued(c)
    /\ UNCHANGED <<conversations, msgs, turns, snapshots>>
    /\ UNCHANGED <<profile, events, clock, lastOp>>
    /\ UNCHANGED <<quizVars, fnVars, chatVars>>

\* a bug: the job reads as the turn loop does, the most recent message only
TranscriptRead_tail(c) ==
    IF msgs[c] = <<>> THEN <<>> ELSE << msgs[c][Len(msgs[c])] >>

\* the full ordered transcript of the conversation
TranscriptRead(c) == msgs[c]

\* the queued job starts: it reads the transcript and the profile and calls
\* the completion service
JobStarts(c) ==
    /\ jobs[c].st = "queued"
    /\ jobs' = [jobs EXCEPT ![c] =
                   [st |-> "calling", attempts |-> 1,
                    seen |-> DOMAIN profile.topics, result |-> NoValue]]
    /\ events' = Emit(c, "started")
    /\ snapshots' = [snapshots EXCEPT ![c] = TranscriptRead(c)]
    /\ lastOp' = [op |-> "started", conv |-> c, response |-> NoResponse]
    /\ UNCHANGED <<conversations, msgs, turns, sessionEvents>>
    /\ UNCHANGED <<profile, clock>>
    /\ UNCHANGED <<quizVars, fnVars, chatVars>>

\* what the completion extracts from a session of the session model
SessionExtraction(c) ==
    CHOOSE x \in Extractions(c, jobs[c].seen) :
        /\ Names(x.topics_discussed) = {"t1"}
        /\ x.quiz_results = <<>>

\* the session that ends in this model; the other conversation is the one
\* the learner goes on with
Ending == {"c1"}

NoSnapshot == << [role |-> "none"] >>

InitSession ==
    /\ ParkedChat
    /\ ParkedQuiz
    /\ ParkedFn
    /\ conversations = [c \in Convs |->
                           IF c = "c1" THEN NewConversation("u1", 0)
                           ELSE NoConversation]
    /\ msgs = [c \in Convs |-> <<>>]
    /\ turns = [k \in TurnCalls |-> Idle]
    /\ sessionEvents = [c \in Convs |-> NoSessionEvents]
    /\ snapshots = [c \in Convs |-> NoSnapshot]
    /\ profile = EmptyProfile
    /\ jobs = [c \in Convs |-> NoJob]
    /\ events = [c \in Convs |-> NoEvents]
    /\ clock = 0
    /\ lastOp = [op |-> "none", conv |-> "", response |-> NoResponse]

\* in the session model one call is served at a time, by the owner
NextSession ==
    \/ \E c \in Convs : CreateConversation("u1", c)
    \/ \E c \in Convs, content \in Contents :
          SendMessageArrives("s1", "u1", c, content)
    \/ TutorFails("s1")
    \/ TutorResponds("s1", "plain")
    \/ CallerTakesReply("s1")
    \/ \E c \in Ending : ExplicitClose(c)
    \/ \E c \in Ending : InactivityTimeout(c)
    \/ \E c \in Ending : SessionEndedRedelivered(c)
    \/ \E c \in Convs : JobStarts(c)
    \/ \E c \in Convs : CompletionFails(c)
    \/ \E c \in Convs : CompletionParsed(c, <<"JSON">>, SessionExtraction(c))

SpecSession == InitSession /\ [][NextSession]_vars

-----------------------------------------------------------------------------
(* The turn loop on its own: two conversations of one learner, calls       *)
(* served side by side, a second user who owns neither conversation        *)

InitTurn ==
    /\ ParkedChat
    /\ ParkedQuiz
    /\ ParkedFn
    /\ conversations = [c \in Convs |-> NewConversation("u1", 0)]
    /\ msgs = [c \in Convs |-> <<>>]
    /\ turns = [k \in TurnCalls |-> Idle]
    /\ sessionEvents = [c \in Convs |-> NoSessionEvents]
    /\ snapshots = [c \in Convs |-> NoSnapshot]
    /\ profile = EmptyProfile
    /\ jobs = [c \in Convs |-> NoJob]
    /\ events = [c \in Convs |-> NoEvents]
    /\ clock = 0
    /\ lastOp = [op |-> "none", conv |-> "", response |-> NoResponse]

NextTurn ==
    \/ \E k \in TurnCalls, user \in Users, c \in Convs, content \in Contents :
          SendMessageArrives(k, user, c, content)
    \/ \E k \in TurnCalls : TutorFails(k)
    \/ \E k \in TurnCalls, kind \in ReplyKinds : TutorResponds(k, kind)
    \/ \E k \in TurnCalls : CallerTakesReply(k)
    \/ \E k \in TurnCalls, user \in Users, c \in Convs, i \in 1..(2 * MaxTurns),
          responses \in QuizSubmissions :
          QuizResponseArrives(k, user, c, i, responses)

SpecTurn == InitTurn /\ [][NextTurn]_vars

-----------------------------------------------------------------------------
(* Properties of the turn loop *)

\* call k gets its reply in this step
Replies(k) == turns[k].st = "awaiting" /\ turns'[k].st = "replied"

\* call k arrives in this step
Arrives(k) == turns[k] = Idle /\ turns'[k].st # "idle"

\* C11: when the completion call of a turn fails, the user message stored
\* for the turn stays where it is, nothing is appended for the turn, and
\* the caller gets the tutor service's error with the conversation as open
\* to a new send_message as it was.
C11_FailedTurnKeepsUserMessage ==
    [][ \A k \in TurnCalls :
          (Replies(k) /\ turns'[k].reply.error # "")
             => /\ turns'[k].reply.error = "TutorServiceError"
                /\ msgs' = msgs
                /\ conversations' = conversations
                /\ LET m == msgs'[turns[k].conv][turns[k].at]
                   IN  m.role = "user" /\ m.content = turns[k].content ]_vars

C11_Witness ==
    \E k \in TurnCalls :
        /\ turns[k].st = "replied"
        /\ turns[k].reply.error = "TutorServiceError"
        /\ Len(msgs[turns[k].conv]) = 1
        /\ msgs[turns[k].conv][1].role = "user"

\* C12: when a retry of a failed turn succeeds, the assistant message it
\* stored follows the user message, and that user message is there once.
C12_RetryDoesNotDuplicate ==
    \A k \in TurnCalls :
        (/\ turns[k].st = "replied"
         /\ turns[k].op = "send"
         /\ turns[k].reply.error = ""
         /\ turns[k].retry)
           => LET m == msgs[turns[k].conv]
                  n == turns[k].reply.index
              IN  /\ m[n].role = "assistant"
                  /\ m[n - 1].role = "user"
                  /\ m[n - 1].content = turns[k].content
                  /\ n > 2 => ~(/\ m[n - 2].role = "user"
                                /\ m[n - 2].content = turns[k].content)

\* C13: a send_message arriving for a conversation on which a turn is in
\* flight is answered Conflict and stores nothing; the owner's send_message
\* on a conversation with no turn in flight is accepted whatever the other
\* conversation is doing.
C13_SecondTurnIsConflict ==
    [][ \A k \in TurnCalls :
          (Arrives(k) /\ turns'[k].op = "send")
             => LET c == turns'[k].conv
                IN  /\ InFlight(c) # {}
                       => /\ turns'[k].st = "replied"
                          /\ turns'[k].reply.error = "Conflict"
                          /\ msgs' = msgs
                    /\ (/\ InFlight(c) = {}
                        /\ conversations[c].user_id = turns'[k].user)
                       => turns'[k].st = "awaiting" ]_vars

\* C14: a send_message or a quiz response from a user who does not own the
\* conversation is answered NotFound; no message is stored, no quiz changes
\* and no event is emitted.
C14_NotOwnerIsNotFound ==
    [][ \A k \in TurnCalls :
          (/\ Arrives(k)
           /\ conversations[turns'[k].conv].user_id # turns'[k].user)
             => /\ turns'[k].st = "replied"
                /\ turns'[k].reply.error = "NotFound"
                /\ msgs' = msgs
                /\ conversations' = conversations
                /\ sessionEvents' = sessionEvents
                /\ events' = events ]_vars

\* the second user answered a pending quiz of the first and got NotFound
C14_Witness ==
    \E k \in TurnCalls :
        /\ turns[k].st = "replied"
        /\ turns[k].op = "quiz"
        /\ turns[k].user = "u2"
        /\ turns[k].reply.error = "NotFound"
        /\ QuizIsPending(msgs[turns[k].conv][turns[k].at].metadata)

-----------------------------------------------------------------------------
(* Properties of the session's end *)

JobInProgress(c) == jobs[c].st \in {"queued", "calling"}

\* C15: once a conversation has ended, no step appends a message to it,
\* and no step takes its Extraction Job off the queue or out of its run.
C15_NoTurnAfterSessionEnd ==
    [][ \A c \in Convs :
          conversations[c].status = "ended"
             => /\ Len(msgs'[c]) = Len(msgs[c])
                /\ (JobInProgress(c) => jobs'[c].st # "none") ]_vars

Phase(c) ==
    IF jobs[c].st = "completed" THEN "extracted" ELSE conversations[c].status

Rank(phase) ==
    CASE phase = "absent" -> 0
      [] phase = "active" -> 1
      [] phase = "ended" -> 2
      [] phase = "extracted" -> 3

\* C16: a conversation only moves forward through active, ended,
\* extracted; session_ended is emitted once and the Extraction Job is
\* enqueued and started once, however many close requests, timeouts and
\* redelivered triggers there are.
C16_LifecycleMovesForward ==
    /\ [](\A c \in Convs :
            /\ sessionEvents[c].session_ended <= 1
            /\ events[c].started <= 1
            /\ ((sessionEvents[c].session_ended = 1)
                  <=> (conversations[c].status = "ended"))
            /\ ((jobs[c].st # "none") <=> (conversations[c].status = "ended")))
    /\ [][ \A c \in Convs :
             /\ Rank(Phase(c)') >= Rank(Phase(c))
             /\ jobs'[c].st = "queued"
                   => jobs[c].st \in {"none", "queued"} ]_vars

\* the session was closed, a second end request and a redelivered trigger
\* came, and its one job has applied its extraction
C16_Witness ==
    /\ sessionEvents["c1"].end_requests = 2
    /\ sessionEvents["c1"].session_ended = 1
    /\ events["c1"] = [started |-> 1, completed |-> 1, failed |-> 0]
    /\ Phase("c1") = "extracted"

\* C17: while an Extraction Job is queued, running or retrying, the learner
\* can create a conversation, a send_message of the owner on another
\* conversation is accepted, and a turn waiting for the tutor can get its
\* reply.
C17_ExtractionNeverBlocksTurns ==
    /\ [](\A c \in Convs : JobInProgress(c)
            => /\ \A d \in Convs :
                    conversations[d].status = "absent"
                       => ENABLED CreateConversation("u1", d)
               /\ turns["s1"].st = "awaiting"
                     => ENABLED TutorResponds("s1", "plain"))
    /\ [][ (\E c \in Convs : JobInProgress(c))
             => ((Arrives("s1") /\ conversations[turns'["s1"].conv].user_id
                                      = turns'["s1"].user)
                    => turns'["s1"].st = "awaiting") ]_vars

\* the job of the ended session is at its second attempt; meanwhile the
\* learner created the other conversation and got a reply there
C17_Witness ==
    /\ jobs["c1"].st = "calling" /\ jobs["c1"].attempts = 2
    /\ conversations["c2"].last_message_at > conversations["c1"].ended_at
    /\ Len(msgs["c2"]) = 2
    /\ msgs["c2"][1].created_at > conversations["c1"].ended_at
    /\ turns["s1"].st = "replied" /\ turns["s1"].reply.error = ""

\* C19: the transcript a job has read holds, in stored order, every message
\* the conversation held when session_ended was emitted.
C19_TranscriptCoversSession ==
    \A c \in Convs :
        snapshots[c] # NoSnapshot
           => /\ Len(snapshots[c]) >= sessionEvents[c].message_count
              /\ \A i \in 1..sessionEvents[c].message_count :
                    snapshots[c][i] = msgs[c][i]

\* the job read a transcript of a whole turn
C19_Witness ==
    /\ sessionEvents["c1"].message_count = 2
    /\ Len(snapshots["c1"]) = 2
    /\ snapshots["c1"][2].role = "assistant"
    /\ jobs["c1"].st = "calling"

-----------------------------------------------------------------------------
(* What a quiz puts in front of the learner: the message send_message
   returns, and QuizBlock's rendering of it *)

AnswerKeys == [1..Len(QuizQuestions) -> {<<"A">>, <<"B">>}]

Selections == [QuestionIds -> {<<>>, <<"A">>, <<"B">>}]

\* extract_quiz_if_present's quiz_data, stored as {"type": "quiz", **quiz_data}
QuizWithKey(key) ==
    [PendingQuiz EXCEPT !.questions =
        [i \in 1..Len(QuizQuestions) |->
            [QuizQuestions[i] EXCEPT !.correct_answer = key[i]]]]

\* the assistant_message row send_message answers with
AssistantMessage(key) ==
    [id |-> "m1", role |-> "assistant", content |-> "quick check",
     metadata |-> QuizWithKey(key)]

\* getResponseForQuestion
ResponsesFor(message, questionId) ==
    {i \in 1..Len(message.metadata.responses) :
        message.metadata.responses[i].question_id = questionId}

OptionClass(message, selected, question, option) ==
    LET letter      == CharAt0(option)
        found       == ResponsesFor(message, question.id)
        isSelected  == selected[question.id] = letter
        isCorrectAnswer == question.correct_answer = letter
    IN  IF isCompleted(message) /\ found # {}
        THEN LET response == message.metadata.responses[CHOOSE i \in found : TRUE]
             IN  IF isCorrectAnswer THEN "border-green-500"
                 ELSE IF response.user_answer = letter /\ ~response.is_correct
                      THEN "border-red-500"
                      ELSE "border-zinc-200"
        ELSE IF isSelected THEN "border-zinc-900" ELSE "border-zinc-200"

\* what QuizBlock returns: per question its option buttons, then the
\* Check Answers button, then the score line
QuizBlockView(message, selected) ==
    LET questions == message.metadata.questions
    IN  [questions |->
            [i \in 1..Len(questions) |->
                [key |-> questions[i].id,
                 options |->
                    [o \in 1..Len(questions[i].options) |->
                        [label |-> questions[i].options[o],
                         class |-> OptionClass(message, selected,
                                               questions[i],
                                               questions[i].options[o]),
                         disabled |-> isCompleted(message)]]]],
         checkAnswers |->
            IF isCompleted(message) THEN "hidden"
            ELSE IF \A i \in 1..Len(questions) : selected[questions[i].id] # <<>>
                 THEN "enabled" ELSE "disabled",
         score |->
            IF isCompleted(message)
            THEN Cardinality({i \in 1..Len(message.metadata.responses) :
                                 message.metadata.responses[i].is_correct})
            ELSE -1]

NothingShown == [stage |-> "none"]

InitExposure ==
    /\ ParkedQuiz
    /\ ParkedExtract
    /\ ParkedTurn
    /\ ParkedChat
    /\ fnIn \in [keys : AnswerKeys \X AnswerKeys, selected : Selections]
    /\ fnOut = NothingShown

\* both quizzes reach the client
DeliverQuiz ==
    /\ fnOut.stage = "none"
    /\ fnOut' = [stage |-> "delivered",
                 delivered |->
                    [n \in 1..2 |->
                        apiMessageToMessage(AssistantMessage(fnIn.keys[n]))]]
    /\ UNCHANGED <<fnIn, quizVars, extractVars, turnVars, chatVars>>

\* the client renders both, the learner having picked the same options
RenderQuiz ==
    /\ fnOut.stage = "delivered"
    /\ fnOut' = [stage |-> "rendered",
                 delivered |-> fnOut.delivered,
                 rendered |->
                    [n \in 1..2 |->
                        QuizBlockView(fnOut.delivered[n], fnIn.selected)]]
    /\ UNCHANGED <<fnIn, quizVars, extractVars, turnVars, chatVars>>

NextExposure == DeliverQuiz \/ RenderQuiz

SpecExposure == InitExposure /\ [][NextExposure]_vars

\* C20: two pending quizzes that differ only in their questions'
\* correct-answer markers are delivered to the client as the same data and
\* rendered the same.
C20_AnswerKeyNotExposed ==
    fnOut.stage = "rendered"
       => /\ fnOut.delivered[1] = fnOut.delivered[2]
          /\ fnOut.rendered[1] = fnOut.rendered[2]

-----------------------------------------------------------------------------
(* The profile row under its two writers: the learner's own edits of       *)
(* goals, background and preferences, and the Extraction Job's apply       *)

UserFields == {"learning_goals", "self_assessed_background", "preferences"}

EditValues == {"e1"}

ObservationLists == {<<>>, <<"o1">>, <<"o2", "o1">>}

\* what the completion may extract from conversation c for the profile
ProfileExtractions(c) ==
    { [session_summary |-> c,
       topics_discussed |->
           << [name |-> IF c = "c1" THEN "t1" ELSE "t2", is_new |-> TRUE,
               comprehension |-> 3] >>,
       quiz_results |-> <<>>,
       learning_style_observations |-> obs,
       open_questions |-> <<c>>,
       suggested_next_topic |-> c] : obs \in ObservationLists }

\* the profile as the learner filled it in at onboarding
OnboardedProfile ==
    [EmptyProfile EXCEPT !.display_name = "u1", !.learning_goals = "e0",
                         !.self_assessed_background = "e0",
                         !.preferences = "e0"]

\* the row the apply merges the delta into: the stored row, read in the
\* transaction that writes it
RowToMerge(c) == profile

\* the values the learner last saved
UserSaved(p) == [f \in UserFields |-> p[f]]

InitProfile ==
    /\ ParkedQuiz
    /\ ParkedTurn
    /\ ParkedChat
    /\ profile = OnboardedProfile
    /\ jobs = [c \in Convs |-> NoJob]
    /\ events = [c \in Convs |-> NoEvents]
    /\ clock = 0
    /\ lastOp = [op |-> "none", conv |-> "", response |-> NoResponse]
    /\ fnIn = [c \in Convs |-> NoValue]
    /\ fnOut = UserSaved(OnboardedProfile)

\* the learner saves one of goals, background, preferences
UserEditsProfile(field, value) ==
    /\ profile[field] # value
    /\ profile' = [profile EXCEPT ![field] = value]
    /\ fnOut' = [fnOut EXCEPT ![field] = value]
    /\ lastOp' = [op |-> "edit", conv |-> "", response |-> NoResponse]
    /\ UNCHANGED <<jobs, events, clock, fnIn, quizVars, turnVars, chatVars>>

\* the job of an ended conversation starts: it reads the profile for its
\* prompt and calls the completion service
ProfileJobStarts(c) ==
    /\ jobs[c].st = "none"
    /\ jobs' = [jobs EXCEPT ![c] =
                   [st |-> "calling", attempts |-> 1,
                    seen |-> DOMAIN profile.topics, result |-> NoValue]]
    /\ events' = Emit(c, "started")
    /\ fnIn' = [fnIn EXCEPT ![c] = profile]
    /\ lastOp' = [op |-> "started", conv |-> c, response |-> NoResponse]
    /\ UNCHANGED <<profile, clock, fnOut, quizVars, turnVars, chatVars>>

\* the completion came back and parsed; the delta is applied
ProfileJobApplies(c, extraction) ==
    /\ jobs[c].st = "calling"
    /\ clock' = clock + 1
    /\ profile' = update_profile_from_extraction(RowToMerge(c), extraction,
                                                 clock + 1)
    /\ jobs' = [jobs EXCEPT ![c].st = "completed", ![c].result = extraction]
    /\ events' = Emit(c, "completed")
    /\ lastOp' = [op |-> "completed", conv |-> c, response |-> <<"JSON">>]
    /\ UNCHANGED <<fnVars, quizVars, turnVars, chatVars>>

NextProfile ==
    \/ \E field \in UserFields, value \in EditValues :
          UserEditsProfile(field, value)
    \/ \E c \in Convs : ProfileJobStarts(c)
    \/ \E c \in Convs : \E extraction \in ProfileExtractions(c) :
          ProfileJobApplies(c, extraction)

SpecProfile == InitProfile /\ [][NextProfile]_vars

Range(seq) == {seq[i] : i \in DOMAIN seq}

Applies(c) == jobs[c].st = "calling" /\ jobs'[c].st = "completed"

\* C21: an apply leaves display name, goals, background and preferences as
\* they were; an edit leaves the learning state as it was; and at every
\* moment the row holds what the learner last saved together with the
\* merge of every extraction applied so far.
C21_ApplyAndEditAreFieldScoped ==
    /\ [](/\ UserSaved(profile) = fnOut
          /\ \A c \in Convs :
                jobs[c].st = "completed"
                   => /\ c \in Range(profile.recent_sessions)
                      /\ Names(jobs[c].result.topics_discussed)
                            \subseteq DOMAIN profile.topics)
    /\ [][ /\ (\E c \in Convs : Applies(c))
              => /\ UserSaved(profile') = UserSaved(profile)
                 /\ profile'.display_name = profile.display_name
           /\ lastOp'.op = "edit"
              => \A f \in DOMAIN profile \ UserFields :
                    profile'[f] = profile[f] ]_vars

\* the learner saved new goals while a job was calling the completion
\* service; the job then applied, and both are in the row
C21_Witness ==
    /\ jobs["c1"].st = "completed"
    /\ fnIn["c1"].learning_goals = "e0"
    /\ profile.learning_goals = "e1"
    /\ "t1" \in DOMAIN profile.topics
    /\ profile.last_session_at > 0

\* C22: the observation list only grows at its end, and nothing appended
\* was already in the list.
C22_ObservationsAppendedOnce ==
    [][ LET old == profile.learning_style_observations
            new == profile'.learning_style_observations
        IN  /\ Len(new) >= Len(old)
            /\ \A i \in 1..Len(old) : new[i] = old[i]
            /\ \A j \in (Len(old) + 1)..Len(new) :
                  /\ new[j] \notin Range(old)
                  /\ \A k \in (Len(old) + 1)..(j - 1) : new[k] # new[j] ]_vars

-----------------------------------------------------------------------------
(* The conversation tail in the tutor prompt: send_message's load of the   *)
(* context and build_tutor_prompt                                          *)

\* get_recent_messages(conversation_id, limit=20) and messages[-20:]
RecentLimit == 20

\* how many messages more than RecentLimit a stored conversation may hold
MaxOver == 2

\* a conversation of n stored messages as send_message leaves it: user and
\* assistant in turn, but for a turn (the one that stored message number
\* failed) whose completion call failed and left no assistant message.
\* A message's content is its number.
StoredConversation(n, failed) ==
    [i \in 1..n |->
        [role |-> IF ((IF failed > 0 /\ i > failed THEN i + 1 ELSE i) % 2) = 1
                  THEN "user" ELSE "assistant",
         content |-> i, created_at |-> i, metadata |-> NoMetadata]]

RECURSIVE Reversed(_)
Reversed(seq) ==
    IF seq = <<>> THEN <<>> ELSE Append(Reversed(Tail(seq)), Head(seq))

\* the newest limit rows of the conversation, returned oldest first
get_recent_messages(rows, limit) ==
    Reversed(SubSeq(Reversed(rows), 1, Min(limit, Len(rows))))

\* Python's messages[-k:]
LastSlice(tail, k) ==
    IF Len(tail) <= k THEN tail
    ELSE SubSeq(tail, Len(tail) - k + 1, Len(tail))

\* one line per message, in the order given
format_messages(tail) ==
    [i \in 1..Len(tail) |-> <<tail[i].role, tail[i].content>>]

build_tutor_prompt(tail) ==
    [system |-> "TUTOR_SYSTEM_PROMPT",
     recent |-> format_messages(LastSlice(tail, RecentLimit))]

\* a bug: the context is loaded before the user message is stored
ContextLoaded_beforeStore(stored, content, now) ==
    get_recent_messages(stored, RecentLimit)

\* send_message steps 2 and 3: store the user message, then load the context
ContextLoaded(stored, content, now) ==
    get_recent_messages(store_message(stored, "user", content, NoMetadata, now),
                        RecentLimit)

InitPrompt ==
    /\ ParkedQuiz
    /\ ParkedExtract
    /\ ParkedTurn
    /\ ParkedChat
    /\ fnIn \in { [stored |-> StoredConversation(n, failed), content |-> n + 1] :
                    n \in 0..(RecentLimit + MaxOver),
                    failed \in 0..(RecentLimit + MaxOver) }
    /\ fnOut = NoValue

\* a turn arrives on the stored conversation and its prompt is built
PromptBuilt ==
    /\ fnOut = NoValue
    /\ fnOut' = build_tutor_prompt(ContextLoaded(fnIn.stored, fnIn.content,
                                                 Len(fnIn.stored) + 1))
    /\ UNCHANGED <<fnIn, quizVars, extractVars, turnVars, chatVars>>

NextPrompt == PromptBuilt

SpecPrompt == InitPrompt /\ [][NextPrompt]_vars

\* C23: the prompt embeds the last RecentLimit messages of the conversation
\* (all of them when there are fewer), oldest first; what is left out is
\* the oldest messages; the user message of this turn is the last one
\* embedded.
C23_PromptEmbedsRecentTail ==
    fnOut # NoValue =>
        LET n == Len(fnIn.stored) + 1
            k == Min(n, RecentLimit)
            numbers == [i \in 1..Len(fnOut.recent) |-> fnOut.recent[i][2]]
        IN  /\ Len(fnOut.recent) = k
            /\ numbers = [i \in 1..k |-> n - k + i]
            /\ \A i \in 1..(k - 1) :
                  fnOut.recent[i][1] = fnIn.stored[n - k + i].role
            /\ fnOut.recent[k] = <<"user", fnIn.content>>

\* a conversation longer than the limit, holding a failed turn, was cut
C23_Witness ==
    /\ fnOut # NoValue
    /\ Len(fnIn.stored) = RecentLimit + 1
    /\ fnIn.stored[3].role = "user" /\ fnIn.stored[4].role = "user"
    /\ Len(fnOut.recent) = RecentLimit
    /\ fnOut.recent[1] = <<"user", 3>>

-----------------------------------------------------------------------------
(* Quiz detection: send_message steps 5, 6 and 8.  The completion's text   *)
(* is a sequence of pieces: prose, the opening and closing quiz tag, a     *)
(* well-formed question block (Q1, Q2) or a broken one (Qx).               *)

MaxPieces == 4

Pieces == {"prose", "<quiz>", "</quiz>", "Q1", "Q2", "Qx"}

CompletionTexts == SeqsUpTo(Pieces, MaxPieces)

\* Python's None
None == [none |-> TRUE]

QuestionOf(piece) == IF piece = "Q1" THEN QuizQuestions[1] ELSE QuizQuestions[2]

Positions(text, piece) == {i \in 1..Len(text) : text[i] = piece}

\* the pieces between the first opening tag and the first closing tag
\* after it, or None
QuizBody(text) ==
    IF Positions(text, "<quiz>") = {} THEN None
    ELSE LET open == CHOOSE i \in Positions(text, "<quiz>") :
                        \A j \in Positions(text, "<quiz>") : i <= j
             closes == {j \in Positions(text, "</quiz>") : j > open}
         IN  IF closes = {} THEN None
             ELSE LET close == CHOOSE j \in closes : \A l \in closes : j <= l
                  IN  [body |-> SubSeq(text, open + 1, close - 1)]

\* the quiz found in the text and validated, or None
extract_quiz_if_present(text) ==
    LET found == QuizBody(text)
    IN  IF found = None THEN None
        ELSE IF /\ Len(found.body) > 0
                /\ \A i \in 1..Len(found.body) : found.body[i] \in {"Q1", "Q2"}
                /\ \A i, j \in 1..Len(found.body) :
                      found.body[i] = found.body[j] => i = j
             THEN [questions |-> [i \in 1..Len(found.body) |->
                                     QuestionOf(found.body[i])],
                   status |-> "pending", responses |-> <<>>,
                   completed_at |-> 0]
             ELSE None

\* Python's truth value of quiz_data: None and the empty dict are false
Truthy(quiz_data) == quiz_data # None /\ DOMAIN quiz_data # {}

\* a bug: {"type": "quiz", **(quiz_data or {})} whatever was found
AssistantMetadata_typed(quiz_data) ==
    IF Truthy(quiz_data)
    THEN [type |-> "quiz", questions |-> quiz_data.questions,
          status |-> quiz_data.status, responses |-> quiz_data.responses,
          completed_at |-> quiz_data.completed_at]
    ELSE [NoMetadata EXCEPT !.type = "quiz"]

\* metadata={"type": "quiz", **quiz_data} if quiz_data else {}
AssistantMetadata(quiz_data) ==
    IF Truthy(quiz_data)
    THEN [type |-> "quiz", questions |-> quiz_data.questions,
          status |-> quiz_data.status, responses |-> quiz_data.responses,
          completed_at |-> quiz_data.completed_at]
    ELSE NoMetadata

\* "has_quiz": quiz_data is not None
HasQuiz(quiz_data) == quiz_data # None

InitDetect ==
    /\ ParkedQuiz
    /\ ParkedExtract
    /\ ParkedTurn
    /\ ParkedChat
    /\ fnIn \in CompletionTexts
    /\ fnOut = NoValue

\* the completion returned fnIn; the assistant message is stored and the
\* call answered
QuizDetected ==
    /\ fnOut = NoValue
    /\ LET quiz_data == extract_quiz_if_present(fnIn)
       IN  fnOut' = [message |-> [id |-> "m1", role |-> "assistant",
                                  content |-> fnIn,
                                  metadata |-> AssistantMetadata(quiz_data)],
                     has_quiz |-> HasQuiz(quiz_data)]
    /\ UNCHANGED <<fnIn, quizVars, extractVars, turnVars, chatVars>>

NextDetect == QuizDetected

SpecDetect == InitDetect /\ [][NextDetect]_vars

\* text in which no quiz can be found: a tag is missing, or no well-formed
\* question is in it
NoQuizMarkup(text) ==
    \/ Positions(text, "<quiz>") = {}
    \/ Positions(text, "</quiz>") = {}
    \/ Positions(text, "Q1") \cup Positions(text, "Q2") = {}

\* text whose quiz block, from the first opening tag to the first closing
\* tag after it, holds a broken question
BrokenQuestionInside(text) ==
    \E i, k, j \in 1..Len(text) :
        /\ i < k /\ k < j
        /\ text[i] = "<quiz>" /\ text[k] = "Qx" /\ text[j] = "</quiz>"
        /\ \A l \in 1..(i - 1) : text[l] # "<quiz>"
        /\ \A l \in (i + 1)..(j - 1) : text[l] # "</quiz>"

\* C24: has_quiz is true exactly when the stored assistant message carries
\* a pending quiz of at least one question, which is when the page shows a
\* QuizBlock for it; the text is stored as the content; text with missing
\* or broken quiz markup gives has_quiz false and plain metadata.
C24_HasQuizIffPendingQuizStored ==
    fnOut # NoValue =>
        /\ fnOut.has_quiz <=>
              (/\ fnOut.message.metadata.type = "quiz"
               /\ Len(fnOut.message.metadata.questions) >= 1
               /\ fnOut.message.metadata.status = "pending")
        /\ fnOut.has_quiz <=>
              QuizBlockRendered(apiMessageToMessage(fnOut.message))
        /\ fnOut.message.content = fnIn
        /\ (NoQuizMarkup(fnIn) \/ BrokenQuestionInside(fnIn))
              => /\ ~fnOut.has_quiz
                 /\ fnOut.message.metadata = NoMetadata

\* one text with a quiz was detected
C24_Witness ==
    /\ fnOut # NoValue
    /\ fnIn = <<"<quiz>", "Q1", "</quiz>">>
    /\ fnOut.has_quiz
    /\ fnOut.message.metadata.questions = <<QuizQuestions[1]>>

-----------------------------------------------------------------------------
(* topic_mastery.mastery_level, the generated column.  A confidence is a   *)
(* NUMERIC(3,2): it is kept here as its number of hundredths.              *)

MasteryValues == {0, 1, 40, 99, 100}

ConfidenceValues == {0, 30, 31, 50, 51, 100}

GREATEST(a, b) == IF a >= b THEN a ELSE b

\* a bug: the two WHEN branches in the other order
mastery_level_conversationFirst(row) ==
    CASE row.conversation_confidence > 30 -> row.conversation_mastery
      [] row.conversation_confidence <= 30 /\ row.quiz_confidence > 50
            -> row.quiz_mastery
      [] OTHER -> GREATEST(row.quiz_mastery, row.conversation_mastery)

\* CASE WHEN quiz_confidence > 0.5 ... WHEN conversation_confidence > 0.3
\* ... ELSE GREATEST(...) END: the first WHEN that holds decides
mastery_level(row) ==
    CASE row.quiz_confidence > 50 -> row.quiz_mastery
      [] row.quiz_confidence <= 50 /\ row.conversation_confidence > 30
            -> row.conversation_mastery
      [] OTHER -> GREATEST(row.quiz_mastery, row.conversation_mastery)

InitMastery ==
    /\ ParkedQuiz
    /\ ParkedExtract
    /\ ParkedTurn
    /\ ParkedChat
    /\ fnIn \in [quiz_mastery : MasteryValues,
                 quiz_confidence : ConfidenceValues,
                 conversation_mastery : MasteryValues,
                 conversation_confidence : ConfidenceValues]
    /\ fnOut = NoValue

\* the row is written and the column generated
RowStored ==
    /\ fnOut = NoValue
    /\ fnOut' = [mastery_level |-> mastery_level(fnIn)]
    /\ UNCHANGED <<fnIn, quizVars, extractVars, turnVars, chatVars>>

NextMastery == RowStored

SpecMastery == InitMastery /\ [][NextMastery]_vars

\* C25: the level is the quiz mastery when the quiz confidence is above
\* 0.5, whatever the conversation signals; else the conversation mastery
\* when the conversation confidence is above 0.3; else the greater of the
\* two masteries; and it lies in 0..100.
C25_MasteryLevelCombination ==
    fnOut # NoValue =>
        /\ fnIn.quiz_confidence > 50
              => fnOut.mastery_level = fnIn.quiz_mastery
        /\ (fnIn.quiz_confidence <= 50 /\ fnIn.conversation_confidence > 30)
              => fnOut.mastery_level = fnIn.conversation_mastery
        /\ (fnIn.quiz_confidence <= 50 /\ fnIn.conversation_confidence <= 30)
              => /\ fnOut.mastery_level >= fnIn.quiz_mastery
                 /\ fnOut.mastery_level >= fnIn.conversation_mastery
                 /\ fnOut.mastery_level
                       \in {fnIn.quiz_mastery, fnIn.conversation_mastery}
        /\ fnOut.mastery_level \in 0..100

\* both confidences are above their thresholds and the quiz signal, the
\* lower one, decided
C25_Witness ==
    /\ fnOut # NoValue
    /\ fnIn.quiz_confidence = 51 /\ fnIn.conversation_confidence = 31
    /\ fnIn.quiz_mastery = 40 /\ fnIn.conversation_mastery = 99
    /\ fnOut.mastery_level = 40

-----------------------------------------------------------------------------
(* Properties of QuizBlock and handleQuizSubmit on the chat page *)

Submits(k) == chan[k] = Free /\ chan'[k].st = "sent"

Settles(k) == chan[k].st = "reply" /\ chan'[k] = Free

\* C27: the page submits a quiz only when the quiz is not shown completed
\* and every question has a selected answer; the submission then holds one
\* entry per question, in question order, with that question's id and the
\* selected answer; for a quiz shown completed the selection never changes.
C27_SubmitOnlyWhenAllAnswered ==
    /\ [][ \A k \in PageCalls :
             Submits(k) =>
                LET message   == RowOf(messages, chan'[k].messageId)
                    questions == message.metadata.questions
                    rs        == chan'[k].responses
                IN  /\ ~isCompleted(message)
                    /\ Len(rs) = Len(questions)
                    /\ \A i \in 1..Len(questions) :
                          /\ rs[i].question_id = questions[i].id
                          /\ rs[i].user_answer # <<>>
                          /\ rs[i].user_answer
                                = answers[message.id][questions[i].id] ]_vars
    /\ [][ \A m \in 1..Len(messages) :
             (QuizBlockRendered(messages[m]) /\ isCompleted(messages[m]))
                => answers'[messages[m].id] = answers[messages[m].id] ]_vars

\* Check Answers was clicked twice on the answered quiz: the first reply
\* completed it on the page while the second request is still out
C27_Witness ==
    /\ isCompleted(RowOf(messages, "m1"))
    /\ chan["k1"] = Free
    /\ chan["k2"].st = "sent"
    /\ chan["k2"].messageId = "m1"
    /\ Len(chan["k2"].responses) = Len(QuizQuestions)

\* C30: when a quiz submission of the page settles, the list keeps its
\* length and order, every message but the submitted one is as before, the
\* submitted one is the server's updated message on success, and the whole
\* list is as before on failure.
C30_QuizSubmitUpdatesOneMessage ==
    [][ \A k \in PageCalls :
          Settles(k) =>
             /\ Len(messages') = Len(messages)
             /\ \A i \in 1..Len(messages) :
                   /\ messages'[i].id = messages[i].id
                   /\ messages[i].id # chan[k].messageId
                         => messages'[i] = messages[i]
                   /\ (messages[i].id = chan[k].messageId /\ chan[k].error = "")
                         => messages'[i] = apiMessageToMessage(chan[k].message)
             /\ chan[k].error # "" => messages' = messages ]_vars

\* the page's submission settled: the graded quiz stands where the
\* pending one stood, the plain message before it is untouched, and no
\* call is out
C30_Witness ==
    /\ chan["k1"] = Free /\ chan["k2"] = Free /\ chan["api"] = Free
    /\ Len(messages) = Len(InitialRows)
    /\ messages[1] = apiMessageToMessage(InitialRows[1])
    /\ messages[2] = apiMessageToMessage(RowOf(dbMessages, "m1"))
    /\ messages[2].metadata.status = "completed"
    /\ dbClock = 1

-----------------------------------------------------------------------------
(* The chat page's send: handleSend, its request and initializeChat.       *)
(* A message id is a pair: <<"m", n>> for the n-th stored row,             *)
(* <<"temp", t>> and <<"user", t>> for the ids the page makes of Date.now() *)

InputTexts == {<<>>, <<" ">>, <<"a">>, <<" ", "a", " ">>}

\* !input.trim()
Blank_emptyOnly(text) == text = <<>>

Blank(text) == strip(text) = <<>>

\* the chat view is on screen: neither "Loading..." nor the error view
ChatShown == ~initializing /\ pageError = ""

InFlight_send == {n \in 1..MaxSends : sendCall[n].st \in {"sent", "stored", "reply"}}

Unused == {n \in 1..MaxSends : sendCall[n].st = "unused"}

\* Date.now(): the page's readings are a request or a keystroke apart,
\* each later than the one before
DateNowReadings == {dateNow + 1}

StoredRow(rows, role, content, metadata) ==
    Append(rows, [id |-> <<"m", Len(rows) + 1>>, role |-> role,
                  content |-> content, metadata |-> metadata])

WithoutId(list, id) == SelectSeq(list, LAMBDA m : m.id # id)

\* onChange of the input, which is disabled while loading
onChange(value) ==
    /\ ChatShown
    /\ ~loading
    /\ input' = value
    /\ event' = "onChange"
    /\ UNCHANGED <<loading, pageError, initializing, sendCall, dateNow>>
    /\ UNCHANGED <<quizVars, extractVars, fnVars, turnVars>>

\* a bug: setLoading(true) is left out
handleSend_neverLoading(via) ==
    /\ ChatShown
    /\ event' = via
    /\ IF Blank(input) \/ loading
       THEN UNCHANGED <<input, loading, sendCall, dateNow, messages>>
       ELSE /\ Unused # {}
            /\ \E now \in DateNowReadings :
                  LET n == CHOOSE u \in Unused : \A v \in Unused : u <= v
                      tempUserMessage ==
                          [id |-> <<"temp", now>>, role |-> "user",
                           content |-> input, metadata |-> NoMetadata]
                  IN  /\ dateNow' = now
                      /\ messages' = Append(messages, tempUserMessage)
                      /\ sendCall' = [sendCall EXCEPT ![n] =
                                         [st |-> "sent", content |-> input,
                                          tempId |-> tempUserMessage.id]]
            /\ input' = <<>>
            /\ loading' = loading
    /\ UNCHANGED <<pageError, initializing>>
    /\ UNCHANGED <<dbMessages, dbClock, chan, answers>>
    /\ UNCHANGED <<extractVars, fnVars, turnVars>>

\* handleSend up to its await, called by handleKeyDown on Enter or by a
\* click on Send
handleSend(via) ==
    /\ ChatShown
    /\ event' = via
    /\ IF Blank(input) \/ loading
       THEN UNCHANGED <<input, loading, sendCall, dateNow, messages>>
       ELSE /\ Unused # {}
            /\ \E now \in DateNowReadings :
                  LET n == CHOOSE u \in Unused : \A v \in Unused : u <= v
                      tempUserMessage ==
                          [id |-> <<"temp", now>>, role |-> "user",
                           content |-> input, metadata |-> NoMetadata]
                  IN  /\ dateNow' = now
                      /\ messages' = Append(messages, tempUserMessage)
                      /\ sendCall' = [sendCall EXCEPT ![n] =
                                         [st |-> "sent", content |-> input,
                                          tempId |-> tempUserMessage.id]]
            /\ input' = <<>>
            /\ loading' = TRUE
    /\ UNCHANGED <<pageError, initializing>>
    /\ UNCHANGED <<dbMessages, dbClock, chan, answers>>
    /\ UNCHANGED <<extractVars, fnVars, turnVars>>

\* send_message step 2 on the server
ServerStoresUserMessage(n) ==
    /\ sendCall[n].st = "sent"
    /\ dbMessages' = StoredRow(dbMessages, "user", sendCall[n].content,
                               NoMetadata)
    /\ sendCall' = [sendCall EXCEPT ![n].st = "stored"]
    /\ event' = "server"
    /\ UNCHANGED <<input, loading, pageError, initializing, dateNow>>
    /\ UNCHANGED <<dbClock, chan, messages, answers>>
    /\ UNCHANGED <<extractVars, fnVars, turnVars>>

\* send_message steps 4 to 8 on the server
ServerReplies(n, kind) ==
    /\ sendCall[n].st = "stored"
    /\ dbMessages' = StoredRow(dbMessages, "assistant", <<"r">>,
                               ReplyMetadata(kind))
    /\ sendCall' = [sendCall EXCEPT ![n] =
                       [st |-> "reply", content |-> @.content,
                        tempId |-> @.tempId, error |-> "",
                        message |-> dbMessages'[Len(dbMessages')]]]
    /\ event' = "server"
    /\ UNCHANGED <<input, loading, pageError, initializing, dateNow>>
    /\ UNCHANGED <<dbClock, chan, messages, answers>>
    /\ UNCHANGED <<extractVars, fnVars, turnVars>>

\* the request fails, before or after the user message was stored:
\* fetchAPI throws
ServerFails(n) ==
    /\ sendCall[n].st \in {"sent", "stored"}
    /\ sendCall' = [sendCall EXCEPT ![n] =
                       [st |-> "reply", content |-> @.content,
                        tempId |-> @.tempId, error |-> "API error",
                        message |-> NoValue]]
    /\ event' = "server"
    /\ UNCHANGED <<input, loading, pageError, initializing, dateNow>>
    /\ UNCHANGED <<quizVars, extractVars, fnVars, turnVars>>

\* a bug: the catch branch leaves the temp message in the list
handleSendSettles_keepsTemp(n) ==
    /\ sendCall[n].st = "reply"
    /\ IF sendCall[n].error = ""
       THEN \E now \in DateNowReadings :
               /\ dateNow' = now
               /\ messages' =
                     WithoutId(messages, sendCall[n].tempId)
                        \o << [id |-> <<"user", now>>, role |-> "user",
                               content |-> sendCall[n].content,
                               metadata |-> NoMetadata],
                              apiMessageToMessage(sendCall[n].message) >>
               /\ pageError' = pageError
       ELSE /\ messages' = messages
            /\ pageError' = sendCall[n].error
            /\ dateNow' = dateNow
    /\ loading' = FALSE
    /\ sendCall' = [sendCall EXCEPT ![n] = [st |-> "settled"]]
    /\ event' = "settled"
    /\ UNCHANGED <<input, initializing>>
    /\ UNCHANGED <<dbMessages, dbClock, chan, answers>>
    /\ UNCHANGED <<extractVars, fnVars, turnVars>>

\* handleSend after its await: try, catch and finally
handleSendSettles(n) ==
    /\ sendCall[n].st = "reply"
    /\ IF sendCall[n].error = ""
       THEN \E now \in DateNowReadings :
               /\ dateNow' = now
               /\ messages' =
                     WithoutId(messages, sendCall[n].tempId)
                        \o << [id |-> <<"user", now>>, role |-> "user",
                               content |-> sendCall[n].content,
                               metadata |-> NoMetadata],
                              apiMessageToMessage(sendCall[n].message) >>
               /\ pageError' = pageError
       ELSE /\ messages' = WithoutId(messages, sendCall[n].tempId)
            /\ pageError' = sendCall[n].error
            /\ dateNow' = dateNow
    /\ loading' = FALSE
    /\ sendCall' = [sendCall EXCEPT ![n] = [st |-> "settled"]]
    /\ event' = "settled"
    /\ UNCHANGED <<input, initializing>>
    /\ UNCHANGED <<dbMessages, dbClock, chan, answers>>
    /\ UNCHANGED <<extractVars, fnVars, turnVars>>

\* initializeChat up to its first await: by the Retry button of the error
\* view, or by the effect when useAuth hands out a new api client
initializeChat(trigger) ==
    /\ ~initializing
    /\ trigger = "Retry" => pageError # ""
    /\ initializing' = TRUE
    /\ pageError' = ""
    /\ event' = trigger
    /\ UNCHANGED <<input, loading, sendCall, dateNow>>
    /\ UNCHANGED <<quizVars, extractVars, fnVars, turnVars>>

\* initializeChat after its awaits: the conversation's messages are set
initializeChatLoaded ==
    /\ initializing
    /\ messages' = [i \in 1..Len(dbMessages) |->
                       apiMessageToMessage(dbMessages[i])]
    /\ initializing' = FALSE
    /\ event' = "initialized"
    /\ UNCHANGED <<input, loading, pageError, sendCall, dateNow>>
    /\ UNCHANGED <<dbMessages, dbClock, chan, answers>>
    /\ UNCHANGED <<extractVars, fnVars, turnVars>>

\* one of initializeChat's requests fails
initializeChatFailed ==
    /\ initializing
    /\ pageError' = "API error"
    /\ initializing' = FALSE
    /\ event' = "initialized"
    /\ UNCHANGED <<input, loading, sendCall, dateNow>>
    /\ UNCHANGED <<quizVars, extractVars, fnVars, turnVars>>

InitChat ==
    /\ ParkedQuiz
    /\ ParkedExtract
    /\ ParkedFn
    /\ ParkedTurn
    /\ ParkedChat

NextChat ==
    \/ \E value \in InputTexts : onChange(value)
    \/ \E via \in {"Enter", "Send"} : handleSend(via)
    \/ \E n \in 1..MaxSends : ServerStoresUserMessage(n)
    \/ \E n \in 1..MaxSends, kind \in ReplyKinds : ServerReplies(n, kind)
    \/ \E n \in 1..MaxSends : ServerFails(n)
    \/ \E n \in 1..MaxSends : handleSendSettles(n)
    \/ \E trigger \in {"Retry", "api"} : initializeChat(trigger)
    \/ initializeChatLoaded
    \/ initializeChatFailed

SpecChat == InitChat /\ [][NextChat]_vars

\* the requests the network and the server are fair to: each is stored,
\* answered or failed in the end, and its continuation then runs
FairSpecChat ==
    /\ SpecChat
    /\ WF_vars(\E n \in 1..MaxSends :
                  \/ ServerStoresUserMessage(n)
                  \/ \E kind \in ReplyKinds : ServerReplies(n, kind)
                  \/ ServerFails(n))
    /\ WF_vars(\E n \in 1..MaxSends : handleSendSettles(n))

-----------------------------------------------------------------------------
(* Properties of the chat page's send *)

OnlySpaces(text) == \A i \in 1..Len(text) : text[i] = " "

HandleSendRan == event' \in {"Enter", "Send"}

TempMessages(list) == {i \in 1..Len(list) : list[i].id[1] = "temp"}

\* C26: handleSend run on an input that is empty or holds only spaces, by
\* Enter or by the Send button, starts no request, adds no message and
\* leaves loading as it was.
C26_BlankInputSendsNothing ==
    [][ (HandleSendRan /\ OnlySpaces(input))
           => /\ sendCall' = sendCall
              /\ messages' = messages
              /\ loading' = loading
              /\ dbMessages' = dbMessages ]_vars

\* Enter was pressed on an input of one space, and nothing was sent
C26_Witness ==
    /\ event = "Enter"
    /\ input = <<" ">>
    /\ ~loading
    /\ messages = <<>>
    /\ Unused = 1..MaxSends

\* C28: at most one sendMessage request of the page is in flight, and
\* handleSend run while one is in flight starts no request and adds no
\* message.
C28_OneSendInFlight ==
    /\ [](Cardinality(InFlight_send) <= 1)
    /\ [][ (HandleSendRan /\ InFlight_send # {})
              => /\ sendCall' = sendCall
                 /\ messages' = messages ]_vars

\* Send was clicked after the server had stored the user message of the
\* request in flight; the list still holds that one temp message
C28_Witness ==
    /\ event = "Send"
    /\ sendCall[1].st = "stored"
    /\ Unused = 2..MaxSends
    /\ loading
    /\ Len(messages) = 1

SettledNow(n) == sendCall[n].st = "reply" /\ sendCall'[n].st = "settled"

\* C29: while loading is false the list holds no temp message; a send
\* that settles resets loading, and by then its temp message is gone, the
\* other messages keep their order, and on success the user message and
\* the assistant reply end the list while on failure the error is set;
\* every send in flight settles.
C29_SendSettlesWithoutTemp ==
    /\ [](~loading => TempMessages(messages) = {})
    /\ [][ \A n \in 1..MaxSends :
             SettledNow(n) =>
                LET rest == WithoutId(messages, sendCall[n].tempId)
                IN  /\ ~loading'
                    /\ TempMessages(messages') = {}
                    /\ SubSeq(messages', 1, Len(rest)) = rest
                    /\ sendCall[n].error = ""
                          => /\ Len(messages') = Len(rest) + 2
                             /\ messages'[Len(rest) + 1].role = "user"
                             /\ messages'[Len(rest) + 1].content
                                   = sendCall[n].content
                             /\ messages'[Len(rest) + 2]
                                   = apiMessageToMessage(sendCall[n].message)
                    /\ sendCall[n].error # ""
                          => /\ messages' = rest
                             /\ pageError' = sendCall[n].error ]_vars
    /\ ((InFlight_send # {}) ~> (InFlight_send = {} /\ ~loading))

\* a first send failed after its user message was stored and the page was
\* reloaded by Retry; the second send succeeded, and its user message and
\* the reply end the list
C29_Witness ==
    /\ sendCall[1].st = "settled" /\ sendCall[2].st = "settled"
    /\ ~loading
    /\ pageError = ""
    /\ Len(dbMessages) = 3
    /\ Len(messages) = 3
    /\ messages[1].id = <<"m", 1>>
    /\ messages[2].id[1] = "user"
    /\ messages[3].role = "assistant"

=============================================================================
